---- MODULE Spec2Model ----
(***************************************************************************)
(* famtreejs: the graph validator (utils/validation.ts), the layout engine *)
(* (layout/engine.ts) and the render pipeline of the FamilyTree component  *)
(* that runs the first and then the second.                                *)
(*                                                                         *)
(* Strings of the program are TLA+ strings.  A thrown ValidationError is a *)
(* record holding the message as the tuple of the fragments of the         *)
(* template literal that builds it.  Coordinates are integers: the spacing *)
(* values drawn below are even, so every "/ 2" of the engine is exact.     *)
(***************************************************************************)
EXTENDS Integers, Sequences, FiniteSets, TLC

\* ------------------------------------------------------------------ values

\* JavaScript's null (an absent second partner) and undefined (no rootPersonId,
\* no orientation option).  Neither is an id of the pools below.
Null == "<null>"
Undefined == "<undefined>"

\* ------------------------------------------------------------------ bounds

\* Largest people list and partnership list of the graphs with defects.
MaxDefectPeople == 2
MaxDefectPartnerships == 2
\* Largest people list, partnership list and childIds list of the graphs
\* that are laid out.
MaxPeople == 4
MaxPartnerships == 2
MaxChildren == 2
\* Largest people list of the graphs that are laid out repeatedly.
MaxCallPeople == 2
\* Largest people list of the graphs whose layout is followed to its end.
MaxReturnPeople == 3
\* Largest distance from zero of the zoom levels and of the pan offsets the
\* store is driven to.
MaxZoomMagnitude == 40
MaxPan == 10

\* ------------------------------------------------------------------ helpers

Range(s) == {s[i] : i \in 1..Len(s)}

SeqsUpTo(S, n) == UNION {[1..k -> S] : k \in 0..n}

Abs(n) == IF n < 0 THEN 0 - n ELSE n

Max(a, b) == IF a >= b THEN a ELSE b

\* String.prototype.trim on the ids of the model: " " trims to "", every other
\* id has no outer whitespace.
Trim(s) == IF s = " " THEN "" ELSE s

\* ------------------------------------------------------------------ validator

\* new ValidationError(message)
ValidationError(message) == [threw |-> TRUE, name |-> "ValidationError", message |-> message]

\* validateFamilyTreeData returning normally
Returned == [threw |-> FALSE, name |-> "", message |-> <<>>]

\* for (const person of data.people): the first throw, or the set personIds
RECURSIVE ValidatePeople(_, _, _)
ValidatePeople(people, i, personIds) ==
  IF i > Len(people) THEN [res |-> Returned, personIds |-> personIds]
  ELSE LET id == people[i] IN
    IF id = "" \/ Trim(id) = ""
      THEN [res |-> ValidationError(<<"Person has empty ID">>), personIds |-> personIds]
    ELSE IF id \in personIds
      THEN [res |-> ValidationError(<<"Duplicate person ID: ", id>>), personIds |-> personIds]
    ELSE ValidatePeople(people, i + 1, personIds \cup {id})

\* for (const childId of partnership.childIds)
RECURSIVE ValidateChildRefs(_, _, _)
ValidateChildRefs(partnership, k, personIds) ==
  IF k > Len(partnership.childIds) THEN Returned
  ELSE IF partnership.childIds[k] \notin personIds
    THEN ValidationError(<<"Partnership ", partnership.id,
                           " references non-existent child: ", partnership.childIds[k]>>)
  ELSE ValidateChildRefs(partnership, k + 1, personIds)

\* ValidatePartnerRefs without the check of the second partner
ValidatePartnerRefs_FirstOnly(partnership, personIds) ==
  LET partner1 == partnership.partnerIds[1]
      partner2 == partnership.partnerIds[2]
  IN IF partner1 = Null /\ partner2 = Null
       THEN ValidationError(<<"Partnership ", partnership.id, " must have at least one partner">>)
     ELSE IF partner1 # Null /\ partner1 \notin personIds
       THEN ValidationError(<<"Partnership ", partnership.id,
                              " references non-existent person: ", partner1>>)
     ELSE ValidateChildRefs(partnership, 1, personIds)

\* the body of for (const partnership of data.partnerships), after the id checks
ValidatePartnerRefs(partnership, personIds) ==
  LET partner1 == partnership.partnerIds[1]
      partner2 == partnership.partnerIds[2]
  IN IF partner1 = Null /\ partner2 = Null
       THEN ValidationError(<<"Partnership ", partnership.id, " must have at least one partner">>)
     ELSE IF partner1 # Null /\ partner1 \notin personIds
       THEN ValidationError(<<"Partnership ", partnership.id,
                              " references non-existent person: ", partner1>>)
     ELSE IF partner2 # Null /\ partner2 \notin personIds
       THEN ValidationError(<<"Partnership ", partnership.id,
                              " references non-existent person: ", partner2>>)
     ELSE ValidateChildRefs(partnership, 1, personIds)

\* for (const partnership of data.partnerships)
RECURSIVE ValidatePartnerships(_, _, _, _)
ValidatePartnerships(partnerships, j, personIds, partnershipIds) ==
  IF j > Len(partnerships) THEN Returned
  ELSE LET partnership == partnerships[j] IN
    IF partnership.id = "" \/ Trim(partnership.id) = ""
      THEN ValidationError(<<"Partnership has empty ID">>)
    ELSE IF partnership.id \in partnershipIds
      THEN ValidationError(<<"Duplicate partnership ID: ", partnership.id>>)
    ELSE LET refs == ValidatePartnerRefs(partnership, personIds) IN
      IF refs.threw THEN refs
      ELSE ValidatePartnerships(partnerships, j + 1, personIds,
                                partnershipIds \cup {partnership.id})

\* parents.push(partner1); parents.push(partner2)
ParentsOf(partnership) ==
  SelectSeq(partnership.partnerIds, LAMBDA p : p # Null)

\* Set.prototype.add on an insertion-ordered set kept as a sequence
SetAdd(s, x) == IF x \in Range(s) THEN s ELSE Append(s, x)

RECURSIVE SetAddAll(_, _)
SetAddAll(s, xs) == IF xs = <<>> THEN s ELSE SetAddAll(SetAdd(s, Head(xs)), Tail(xs))

\* buildParentMap: person id -> the insertion-ordered set of parent ids
RECURSIVE AddParents(_, _, _, _)
AddParents(parentMap, childIds, k, parents) ==
  IF k > Len(childIds) THEN parentMap
  ELSE LET childId == childIds[k] IN
    AddParents(IF childId \in DOMAIN parentMap
                 THEN [parentMap EXCEPT ![childId] = SetAddAll(@, parents)]
                 ELSE parentMap,
               childIds, k + 1, parents)

RECURSIVE BuildParentMapFrom(_, _, _)
BuildParentMapFrom(parentMap, partnerships, j) ==
  IF j > Len(partnerships) THEN parentMap
  ELSE BuildParentMapFrom(
         AddParents(parentMap, partnerships[j].childIds, 1, ParentsOf(partnerships[j])),
         partnerships, j + 1)

buildParentMap(data) ==
  BuildParentMapFrom([p \in Range(data.people) |-> <<>>], data.partnerships, 1)

\* AncestorLoop that looks at the parents only, never at their parents
RECURSIVE AncestorLoop_ParentsOnly(_, _, _, _)
AncestorLoop_ParentsOnly(parentMap, personId, queue, visited) ==
  IF queue = <<>> THEN FALSE
  ELSE IF Head(queue) = personId THEN TRUE
  ELSE AncestorLoop_ParentsOnly(parentMap, personId, Tail(queue), visited)

\* the while (queue.length > 0) loop for one person: TRUE iff it throws
RECURSIVE AncestorLoop(_, _, _, _)
AncestorLoop(parentMap, personId, queue, visited) ==
  IF queue = <<>> THEN FALSE
  ELSE LET ancestorId == Head(queue) IN
    IF ancestorId = personId THEN TRUE
    ELSE IF ancestorId \notin visited
      THEN AncestorLoop(parentMap, personId,
                        Tail(queue) \o (IF ancestorId \in DOMAIN parentMap
                                          THEN parentMap[ancestorId] ELSE <<>>),
                        visited \cup {ancestorId})
    ELSE AncestorLoop(parentMap, personId, Tail(queue), visited)

\* for (const person of data.people) of detectCircularReferences
RECURSIVE DetectFrom(_, _, _)
DetectFrom(parentMap, people, i) ==
  IF i > Len(people) THEN Returned
  ELSE IF AncestorLoop(parentMap, people[i], parentMap[people[i]], {})
    THEN ValidationError(<<"Circular reference detected: ", people[i],
                           " is their own ancestor">>)
  ELSE DetectFrom(parentMap, people, i + 1)

detectCircularReferences(data) == DetectFrom(buildParentMap(data), data.people, 1)

\* validateFamilyTreeData with the root hint checked before the partnerships
validateFamilyTreeData_RootFirst(d) ==
  LET people == ValidatePeople(d.people, 1, {}) IN
  IF people.res.threw THEN people.res
  ELSE IF d.rootPersonId # Undefined /\ d.rootPersonId \notin people.personIds
    THEN ValidationError(<<"rootPersonId references non-existent person: ", d.rootPersonId>>)
  ELSE LET partnerships == ValidatePartnerships(d.partnerships, 1, people.personIds, {}) IN
    IF partnerships.threw THEN partnerships
    ELSE detectCircularReferences(d)

validateFamilyTreeData(data) ==
  LET people == ValidatePeople(data.people, 1, {}) IN
  IF people.res.threw THEN people.res
  ELSE LET partnerships == ValidatePartnerships(data.partnerships, 1, people.personIds, {}) IN
    IF partnerships.threw THEN partnerships
    ELSE IF data.rootPersonId # Undefined /\ data.rootPersonId \notin people.personIds
      THEN ValidationError(<<"rootPersonId references non-existent person: ", data.rootPersonId>>)
    ELSE detectCircularReferences(data)

\* ------------------------------------------------------------------ layout engine

DEFAULT_SPACING == [generation |-> 100, siblings |-> 50, partners |-> 30]

Orientations == {"top-down", "bottom-up", "left-right", "right-left"}

\* n / 2 for the even n the engine divides (no value for an odd n: the
\* spacing values of the model keep every dividend even)
Half(n) == IF n % 2 = 0 THEN n \div 2 ELSE CHOOSE h \in {} : TRUE

\* { ...DEFAULT_SPACING, ...options.spacing }: a key options.spacing holds wins
MergeSpacing(spacingOpt) ==
  [k \in DOMAIN DEFAULT_SPACING |->
     IF k \in DOMAIN spacingOpt THEN spacingOpt[k] ELSE DEFAULT_SPACING[k]]

\* transformPoint whose right-left case does not negate
transformPoint_RightLeftAsLeftRight(point, orientation) ==
  CASE orientation = "top-down" -> point
    [] orientation = "bottom-up" -> [x |-> point.x, y |-> 0 - point.y]
    [] orientation = "left-right" -> [x |-> point.y, y |-> point.x]
    [] orientation = "right-left" -> [x |-> point.y, y |-> point.x]
    [] OTHER -> point

transformPoint(point, orientation) ==
  CASE orientation = "top-down" -> point
    [] orientation = "bottom-up" -> [x |-> point.x, y |-> 0 - point.y]
    [] orientation = "left-right" -> [x |-> point.y, y |-> point.x]
    [] orientation = "right-left" -> [x |-> 0 - point.y, y |-> point.x]
    [] OTHER -> point

TransformNode(node, orientation) ==
  LET pt == transformPoint([x |-> node.x, y |-> node.y], orientation)
  IN [id |-> node.id, x |-> pt.x, y |-> pt.y]

TransformPartnershipConnection(conn, orientation) ==
  [conn EXCEPT !.midpoint = transformPoint(@, orientation)]

TransformChildConnection(conn, orientation) ==
  [conn EXCEPT !.dropPoint = transformPoint(@, orientation),
               !.childPoint = transformPoint(@, orientation)]

transformLayout(result, orientation) ==
  IF orientation = "top-down"
    THEN [nodes |-> result.nodes,
          partnershipConnections |-> result.partnershipConnections,
          childConnections |-> result.childConnections,
          orientation |-> orientation]
    ELSE [nodes |->
            [i \in 1..Len(result.nodes) |-> TransformNode(result.nodes[i], orientation)],
          partnershipConnections |->
            [i \in 1..Len(result.partnershipConnections) |->
               TransformPartnershipConnection(result.partnershipConnections[i], orientation)],
          childConnections |->
            [i \in 1..Len(result.childConnections) |->
               TransformChildConnection(result.childConnections[i], orientation)],
          orientation |-> orientation]

\* buildChildToPartnershipMap: child id -> the last partnership that lists it
RECURSIVE ChildMapFrom(_, _, _)
ChildMapFrom(map, partnerships, j) ==
  IF j > Len(partnerships) THEN map
  ELSE LET partnership == partnerships[j]
           kids == Range(partnership.childIds)
       IN ChildMapFrom([c \in (DOMAIN map) \cup kids |->
                          IF c \in kids THEN partnership ELSE map[c]],
                       partnerships, j + 1)

buildChildToPartnershipMap(data) == ChildMapFrom(<<>>, data.partnerships, 1)

\* a JavaScript string used as a condition: null and "" are falsy
Truthy(id) == id # Null /\ id # ""

\* the marking loop that looks for the root in the first slot only
RECURSIVE MarkPartners_FirstSlotOnly(_, _, _, _)
MarkPartners_FirstSlotOnly(partnersOfRoots, personId, partnerships, j) ==
  IF j > Len(partnerships) THEN partnersOfRoots
  ELSE LET p1 == partnerships[j].partnerIds[1]
           p2 == partnerships[j].partnerIds[2]
       IN MarkPartners_FirstSlotOnly(
            IF p1 = personId /\ Truthy(p2) THEN partnersOfRoots \cup {p2}
            ELSE partnersOfRoots,
            personId, partnerships, j + 1)

\* for (const partnership of data.partnerships) inside findRootPeople
RECURSIVE MarkPartners(_, _, _, _)
MarkPartners(partnersOfRoots, personId, partnerships, j) ==
  IF j > Len(partnerships) THEN partnersOfRoots
  ELSE LET p1 == partnerships[j].partnerIds[1]
           p2 == partnerships[j].partnerIds[2]
       IN MarkPartners(
            IF p1 = personId /\ Truthy(p2) THEN partnersOfRoots \cup {p2}
            ELSE IF p2 = personId /\ Truthy(p1) THEN partnersOfRoots \cup {p1}
            ELSE partnersOfRoots,
            personId, partnerships, j + 1)

RECURSIVE FindRootsFrom(_, _, _, _, _)
FindRootsFrom(data, childIds, i, roots, partnersOfRoots) ==
  IF i > Len(data.people) THEN roots
  ELSE LET id == data.people[i] IN
    IF id \notin childIds /\ id \notin partnersOfRoots
      THEN FindRootsFrom(data, childIds, i + 1, Append(roots, id),
                         MarkPartners(partnersOfRoots, id, data.partnerships, 1))
      ELSE FindRootsFrom(data, childIds, i + 1, roots, partnersOfRoots)

\* the root finder that begins with the person data.rootPersonId names
findRootPeople_HintFirst(data, childToPartnershipMap) ==
  LET roots == FindRootsFrom(data, DOMAIN childToPartnershipMap, 1, <<>>, {})
      hint == data.rootPersonId
  IN IF hint = Undefined THEN roots
     ELSE <<hint>> \o SelectSeq(roots, LAMBDA id : id # hint)

findRootPeople(data, childToPartnershipMap) ==
  LET roots == FindRootsFrom(data, DOMAIN childToPartnershipMap, 1, <<>>, {})
  IN IF Len(roots) = 0 /\ Len(data.people) > 0 THEN <<data.people[1]>> ELSE roots

getPartnershipsForPerson(personId, data) ==
  SelectSeq(data.partnerships,
            LAMBDA p : p.partnerIds[1] = personId \/ p.partnerIds[2] = personId)

\* a processed set that answers no to every has()
AlreadyProcessed_Never(processed, id) == FALSE

\* processedPeople.has(personId), processedPartnerships.has(partnership.id):
\* the two tests layoutFamilyUnit makes before it goes on
AlreadyProcessed(processed, id) == id \in processed

\* a partner is given the position of the unit whether or not one is recorded
NotYetPlaced_Always(positions, id) == TRUE

\* !nodePositions.has(id)
NotYetPlaced(positions, id) == id \notin DOMAIN positions

\* the arithmetic of layoutFamilyUnit, line by line
PartnerWidth(p2Id, sp) == IF p2Id # Null THEN sp.partners ELSE 0
UnitWidth(partnerWidth, childrenTotalWidth) == Max(partnerWidth, childrenTotalWidth)
UnitCenter(curX, unitWidth) == curX + Half(unitWidth)
P1X(unitCenter, partnerWidth) == unitCenter - Half(partnerWidth)
\* p2X with the sign of p1X
P2X_Minus(unitCenter, partnerWidth) == unitCenter - Half(partnerWidth)
P2X(unitCenter, partnerWidth) == unitCenter + Half(partnerWidth)
MidpointX(p2Id, p1X, p2X) == IF p2Id # Null THEN Half(p1X + p2X) ELSE p1X
\* the children started at the left edge of the unit, not centred in it
ChildrenStartX_Left(curX, unitWidth, childrenTotalWidth) == curX
ChildrenStartX(curX, unitWidth, childrenTotalWidth) ==
  curX + Half(unitWidth - childrenTotalWidth)
ChildCenterX(childX, childWidth) == childX + Half(childWidth)
\* the cursor advanced by the child's width alone
NextChildX_NoGap(childX, childWidth, sp) == childX + childWidth
NextChildX(childX, childWidth, sp) == childX + childWidth + sp.siblings
ChildY(y, sp) == y + sp.generation
DropPointY(y, sp) == y + Half(sp.generation)

\* calculateSubtreeWidth: the width, and the visited set as the call leaves it
RECURSIVE calculateSubtreeWidth(_, _, _, _, _)
RECURSIVE SubtreeChildren(_, _, _, _, _, _, _)
RECURSIVE SubtreePartnerships(_, _, _, _, _, _, _)

SubtreeChildren(children, k, data, spacing, processedPartnerships, visited, childrenWidth) ==
  IF k > Len(children) THEN [width |-> childrenWidth, visited |-> visited]
  ELSE LET child == calculateSubtreeWidth(children[k], data, spacing,
                                          processedPartnerships, visited)
       IN SubtreeChildren(children, k + 1, data, spacing, processedPartnerships,
                          child.visited, childrenWidth + child.width)

SubtreePartnerships(partnerships, j, data, spacing, processedPartnerships, visited, totalWidth) ==
  IF j > Len(partnerships) THEN [width |-> totalWidth, visited |-> visited]
  ELSE LET p2Id == partnerships[j].partnerIds[2]
           children == partnerships[j].childIds
           kids == SubtreeChildren(children, 1, data, spacing, processedPartnerships, visited, 0)
           childrenWidth == kids.width + (IF Len(children) > 1
                                            THEN (Len(children) - 1) * spacing.siblings ELSE 0)
           partnerWidth == PartnerWidth(p2Id, spacing)
       IN SubtreePartnerships(partnerships, j + 1, data, spacing, processedPartnerships,
                              kids.visited, totalWidth + Max(partnerWidth, childrenWidth))

calculateSubtreeWidth(personId, data, spacing, processedPartnerships, visited) ==
  IF personId \in visited THEN [width |-> 0, visited |-> visited]
  ELSE LET partnerships == SelectSeq(getPartnershipsForPerson(personId, data),
                                     LAMBDA p : p.id \notin processedPartnerships)
           all == SubtreePartnerships(partnerships, 1, data, spacing, processedPartnerships,
                                      visited \cup {personId}, 0)
       IN IF Len(partnerships) = 0
            THEN [width |-> 0, visited |-> visited \cup {personId}]
            ELSE [width |-> all.width + (IF Len(partnerships) > 1
                                           THEN (Len(partnerships) - 1) * spacing.siblings
                                           ELSE 0),
                  visited |-> all.visited]

\* processedPeople after a calculateSubtreeWidth call that was handed the
\* set itself: what the call visited is in it
PeopleAfterEstimate_Shared(processedPeople, visitedAfter) == visitedAfter

\* processedPeople after calculateSubtreeWidth(..., new Set(processedPeople)):
\* the call added to its copy
PeopleAfterEstimate(processedPeople, visitedAfter) == processedPeople

\* the first pass of layoutFamilyUnit, lines 280-291: childWidths, and
\* processedPeople as the calls leave it
RECURSIVE FirstPass(_, _, _, _, _, _, _)
FirstPass(children, k, data, spacing, processedPartnerships, processedPeople, childWidths) ==
  IF k > Len(children)
    THEN [childWidths |-> childWidths, processedPeople |-> processedPeople]
    ELSE LET call == calculateSubtreeWidth(children[k], data, spacing,
                                           processedPartnerships, processedPeople)
         IN FirstPass(children, k + 1, data, spacing, processedPartnerships,
                      PeopleAfterEstimate(processedPeople, call.visited),
                      Append(childWidths, call.width))

ChildWidths(children, data, spacing, processedPartnerships, processedPeople) ==
  FirstPass(children, 1, data, spacing, processedPartnerships, processedPeople,
            <<>>).childWidths

RECURSIVE SumSeq(_)
SumSeq(s) == IF s = <<>> THEN 0 ELSE Head(s) + SumSeq(Tail(s))

\* ------------------------------------------------------------------ state

VARIABLES
  data,                    \* the data prop: the FamilyTreeData being rendered
  spacingOpt,              \* options.spacing: the keys the caller sets
  rootPersonIdOpt,         \* options.rootPersonId, Undefined when not given
  peopleData,              \* the data payload of the people, by person id
  orientationOpt,          \* options.orientation, Undefined when not given
  pc,                      \* where the render is
  thrown,                  \* what validateFamilyTreeData did
  spacing,                 \* calculateLayout: the merged spacing
  rootPeople,              \* calculateLayout: the roots, their loop index
  rootIdx,
  currentX,                \* calculateLayout: let currentX
  nodePositions,           \* the session: person id -> {x, y}
  partnershipConnections,
  childConnections,
  processedPartnerships,
  processedPeople,
  stack,                   \* the active layoutFamilyUnit calls, innermost last
  returned,                \* the value the last finished layoutFamilyUnit returned
  result,                  \* the LayoutResult calculateLayout returned
  given,                   \* the graph as the caller handed it in
  remembered,              \* an earlier calculateLayout call: its arguments, its result
  placedBefore,            \* the persons that had a position when the current root was begun
  minZoom,                 \* createTreeStore: the bounds the store closes over
  maxZoom,
  initialState,            \* treeStore.ts: the module-level initialState object
  storeState,              \* the state object of the store
  expandedIdsRef,          \* the Set object storeState.expandedIds refers to
  beforeReset,             \* the state reset() was last called on, while nothing followed
  personIdx,               \* detectCircularReferences: the place of person in data.people
  queue,                   \* detectCircularReferences: const queue, first to leave first
  visited                  \* detectCircularReferences: const visited

inputVars == <<data, spacingOpt, rootPersonIdOpt, peopleData>>
driverVars == <<spacing, rootPeople, rootIdx, currentX>>
sessionVars == <<nodePositions, partnershipConnections, childConnections,
                 processedPartnerships, processedPeople>>
historyVars == <<given, remembered, placedBefore>>
storeVars == <<minZoom, maxZoom, initialState, storeState, expandedIdsRef, beforeReset>>
detectVars == <<personIdx, queue, visited>>
outsideVars == <<historyVars, storeVars, detectVars>>
renderVars == <<data, spacingOpt, rootPersonIdOpt, peopleData, orientationOpt, pc, thrown, spacing, rootPeople, rootIdx,
                currentX, nodePositions, partnershipConnections, childConnections,
                processedPartnerships, processedPeople, stack, returned, result>>
vars == <<renderVars, outsideVars>>

\* no LayoutResult yet
NoResult == [nodes |-> <<>>, partnershipConnections |-> <<>>, childConnections |-> <<>>,
             orientation |-> Undefined]

\* Map.prototype.set
MapSet(map, key, value) ==
  [k \in (DOMAIN map) \cup {key} |-> IF k = key THEN value ELSE map[k]]

\* a call of layoutFamilyUnit that has not run its first statement
Call(personId, startX, y) ==
  [personId |-> personId, startX |-> startX, y |-> y, at |-> "entry",
   pi |-> 0, currentX |-> startX, totalWidth |-> 0,
   i |-> 0, childX |-> 0, childY |-> 0, childWidths |-> <<>>,
   midpointX |-> 0, unitWidth |-> 0]

Top == stack[Len(stack)]
Rest == SubSeq(stack, 1, Len(stack) - 1)

\* no root hint in the options, no payload on anyone
NoHints ==
  /\ rootPersonIdOpt = Undefined
  /\ peopleData = <<>>

\* the state a render starts in
Fresh ==
  /\ orientationOpt = Undefined
  /\ pc = "validate"
  /\ thrown = Returned
  /\ spacing = DEFAULT_SPACING
  /\ rootPeople = <<>>
  /\ rootIdx = 0
  /\ currentX = 0
  /\ nodePositions = <<>>
  /\ partnershipConnections = <<>>
  /\ childConnections = <<>>
  /\ processedPartnerships = {}
  /\ processedPeople = {}
  /\ stack = <<>>
  /\ returned = 0
  /\ result = NoResult

\* ------------------------------------------------------------------ actions

\* a validator that repairs what it rejects: the last partnership is dropped
Validate_Repairing ==
  /\ pc = "validate"
  /\ thrown' = validateFamilyTreeData(data)
  /\ pc' = IF thrown'.threw THEN "threw" ELSE "calculate"
  /\ data' = IF thrown'.threw
             THEN [data EXCEPT !.partnerships = SubSeq(@, 1, Len(@) - 1)]
             ELSE data
  /\ UNCHANGED <<spacingOpt, rootPersonIdOpt, peopleData, outsideVars, orientationOpt,
                 driverVars, sessionVars, stack,
                 returned, result>>

\* FamilyTreeInner: validateFamilyTreeData(data), a throw ends the render
Validate ==
  /\ pc = "validate"
  /\ thrown' = validateFamilyTreeData(data)
  /\ pc' = IF thrown'.threw THEN "threw" ELSE "calculate"
  /\ UNCHANGED <<inputVars, outsideVars, orientationOpt, driverVars, sessionVars, stack, returned, result>>

\* calculateLayout that starts on the maps and sets the previous call left
StartLayout_SessionKept ==
  /\ pc = "calculate"
  /\ spacing' = MergeSpacing(spacingOpt)
  /\ rootPeople' = findRootPeople(data, buildChildToPartnershipMap(data))
  /\ rootIdx' = 1
  /\ currentX' = 0
  /\ pc' = "roots"
  /\ UNCHANGED <<inputVars, outsideVars, orientationOpt, thrown, stack, returned, result,
                 sessionVars>>

\* calculateLayout up to its loop over the roots
StartLayout ==
  /\ pc = "calculate"
  /\ spacing' = MergeSpacing(spacingOpt)
  /\ rootPeople' = findRootPeople(data, buildChildToPartnershipMap(data))
  /\ rootIdx' = 1
  /\ currentX' = 0
  /\ nodePositions' = <<>>
  /\ partnershipConnections' = <<>>
  /\ childConnections' = <<>>
  /\ processedPartnerships' = {}
  /\ processedPeople' = {}
  /\ pc' = "roots"
  /\ UNCHANGED <<inputVars, outsideVars, orientationOpt, thrown, stack, returned, result>>

\* for (const rootId of rootPeople): skip a processed root, or call layoutFamilyUnit
NextRoot ==
  /\ pc = "roots"
  /\ rootIdx <= Len(rootPeople)
  /\ IF rootPeople[rootIdx] \in processedPeople
       THEN /\ rootIdx' = rootIdx + 1
            /\ UNCHANGED <<pc, stack, placedBefore>>
       ELSE /\ stack' = <<Call(rootPeople[rootIdx], currentX, 0)>>
            /\ pc' = "unit"
            /\ placedBefore' = DOMAIN nodePositions
            /\ UNCHANGED rootIdx
  /\ UNCHANGED <<inputVars, given, remembered, storeVars, detectVars, orientationOpt, thrown, spacing, rootPeople, currentX,
                 sessionVars, returned, result>>

\* currentX += width + spacing.siblings
NextRootX(curX, width, sp) == curX + width + sp.siblings

\* return width: to the loop over the roots, which adds it to currentX, or to
\* the loop over the children of the calling unit, which discards it
Return(width) ==
  /\ returned' = width
  /\ IF Rest = <<>>
       THEN /\ stack' = <<>>
            /\ currentX' = NextRootX(currentX, width, spacing)
            /\ rootIdx' = rootIdx + 1
            /\ pc' = "roots"
       ELSE /\ stack' = [Rest EXCEPT ![Len(Rest)] =
                           [@ EXCEPT !.childX = NextChildX(@, Rest[Len(Rest)].childWidths[Rest[Len(Rest)].i],
                                                                spacing),
                                     !.i = @ + 1]]
            /\ UNCHANGED <<currentX, rootIdx, pc>>

\* layoutFamilyUnit, lines 249-264
UnitEntry ==
  /\ pc = "unit"
  /\ Top.at = "entry"
  /\ IF AlreadyProcessed(processedPeople, Top.personId)
       THEN /\ Return(0)
            /\ UNCHANGED sessionVars
     ELSE IF Len(getPartnershipsForPerson(Top.personId, data)) = 0
       THEN /\ nodePositions' = MapSet(nodePositions, Top.personId,
                                       [x |-> Top.startX, y |-> Top.y])
            /\ processedPeople' = processedPeople \cup {Top.personId}
            /\ Return(0)
            /\ UNCHANGED <<partnershipConnections, childConnections, processedPartnerships>>
     ELSE /\ stack' = [stack EXCEPT ![Len(stack)] =
                         [@ EXCEPT !.at = "loop", !.pi = 1, !.totalWidth = 0,
                                   !.currentX = Top.startX]]
          /\ UNCHANGED <<sessionVars, currentX, rootIdx, pc, returned>>
  /\ UNCHANGED <<inputVars, outsideVars, orientationOpt, thrown, spacing, rootPeople, result>>

\* layoutFamilyUnit, one turn of for (const partnership of partnerships):
\* lines 266-331, and lines 367-368 when the partnership has no children
UnitPartnership ==
  /\ pc = "unit"
  /\ Top.at = "loop"
  /\ Top.pi <= Len(getPartnershipsForPerson(Top.personId, data))
  /\ LET partnership == getPartnershipsForPerson(Top.personId, data)[Top.pi] IN
     IF AlreadyProcessed(processedPartnerships, partnership.id)
       THEN /\ stack' = [stack EXCEPT ![Len(stack)].pi = @ + 1]
            /\ UNCHANGED sessionVars
       ELSE LET processed == processedPartnerships \cup {partnership.id}
                p1Id == partnership.partnerIds[1]
                p2Id == partnership.partnerIds[2]
                children == partnership.childIds
                pass == FirstPass(children, 1, data, spacing, processed, processedPeople, <<>>)
                childWidths == pass.childWidths
                childrenTotalWidth ==
                  SumSeq(childWidths)
                  + (IF Len(children) > 1 THEN (Len(children) - 1) * spacing.siblings ELSE 0)
                partnerWidth == PartnerWidth(p2Id, spacing)
                unitWidth == UnitWidth(partnerWidth, childrenTotalWidth)
                unitCenter == UnitCenter(Top.currentX, unitWidth)
                p1X == P1X(unitCenter, partnerWidth)
                p2X == P2X(unitCenter, partnerWidth)
                set1 == NotYetPlaced(nodePositions, p1Id)
                positions1 == IF set1 THEN MapSet(nodePositions, p1Id, [x |-> p1X, y |-> Top.y])
                                      ELSE nodePositions
                set2 == p2Id # Null /\ NotYetPlaced(positions1, p2Id)
                midpointX == MidpointX(p2Id, p1X, p2X)
                nextX == Top.currentX + unitWidth + spacing.siblings
            IN /\ processedPartnerships' = processed
               /\ nodePositions' = IF set2 THEN MapSet(positions1, p2Id, [x |-> p2X, y |-> Top.y])
                                           ELSE positions1
               /\ processedPeople' = pass.processedPeople \cup (IF set1 THEN {p1Id} ELSE {})
                                                     \cup (IF set2 THEN {p2Id} ELSE {})
               /\ partnershipConnections' =
                    Append(partnershipConnections,
                           [partnershipId |-> partnership.id, partner1Id |-> p1Id,
                            partner2Id |-> p2Id, midpoint |-> [x |-> midpointX, y |-> Top.y]])
               /\ stack' = [stack EXCEPT ![Len(stack)] =
                    IF Len(children) > 0
                      THEN [@ EXCEPT !.at = "children", !.i = 1,
                                     !.childY = ChildY(Top.y, spacing),
                                     !.childX = ChildrenStartX(Top.currentX, unitWidth,
                                                               childrenTotalWidth),
                                     !.childWidths = childWidths,
                                     !.midpointX = midpointX,
                                     !.unitWidth = unitWidth]
                      ELSE [@ EXCEPT !.currentX = nextX,
                                     !.totalWidth = nextX - Top.startX - spacing.siblings,
                                     !.pi = @ + 1]]
               /\ UNCHANGED childConnections
  /\ UNCHANGED <<inputVars, outsideVars, orientationOpt, thrown, driverVars, pc, returned, result>>

\* layoutFamilyUnit, one turn of for (let i = 0; i < children.length; i++):
\* lines 333-361, up to the first statement of the recursive call
UnitChild ==
  /\ pc = "unit"
  /\ Top.at = "children"
  /\ LET partnership == getPartnershipsForPerson(Top.personId, data)[Top.pi]
         children == partnership.childIds
     IN /\ Top.i <= Len(children)
        /\ LET childId == children[Top.i]
               childWidth == Top.childWidths[Top.i]
               childCenterX == ChildCenterX(Top.childX, childWidth)
           IN /\ childConnections' =
                   Append(childConnections,
                          [partnershipId |-> partnership.id, childId |-> childId,
                           dropPoint |-> [x |-> Top.midpointX,
                                          y |-> DropPointY(Top.y, spacing)],
                           childPoint |-> [x |-> childCenterX, y |-> Top.childY]])
              /\ stack' = Append(stack, Call(childId, Top.childX, Top.childY))
  /\ UNCHANGED <<inputVars, outsideVars, orientationOpt, thrown, driverVars, pc, nodePositions,
                 partnershipConnections, processedPartnerships, processedPeople,
                 returned, result>>

\* layoutFamilyUnit, lines 367-368 after the loop over the children
UnitChildrenDone ==
  /\ pc = "unit"
  /\ Top.at = "children"
  /\ Top.i > Len(getPartnershipsForPerson(Top.personId, data)[Top.pi].childIds)
  /\ LET nextX == Top.currentX + Top.unitWidth + spacing.siblings IN
     stack' = [stack EXCEPT ![Len(stack)] =
                 [@ EXCEPT !.at = "loop", !.currentX = nextX,
                           !.totalWidth = nextX - Top.startX - spacing.siblings,
                           !.pi = @ + 1]]
  /\ UNCHANGED <<inputVars, outsideVars, orientationOpt, thrown, driverVars, pc, sessionVars,
                 returned, result>>

\* layoutFamilyUnit, line 371
UnitReturn ==
  /\ pc = "unit"
  /\ Top.at = "loop"
  /\ Top.pi > Len(getPartnershipsForPerson(Top.personId, data))
  /\ Return(Max(0, Top.totalWidth))
  /\ UNCHANGED <<inputVars, outsideVars, orientationOpt, thrown, spacing, rootPeople, sessionVars, result>>

\* Nodes built from the recorded positions alone
Nodes_PlacedOnly ==
  LET placed == SelectSeq(data.people, LAMBDA id : id \in DOMAIN nodePositions)
  IN [i \in 1..Len(placed) |->
        [id |-> placed[i], x |-> nodePositions[placed[i]].x, y |-> nodePositions[placed[i]].y]]

\* calculateLayout, lines 161-165: one node per person, {x: 0, y: 0} for a
\* person without a recorded position
Nodes ==
  [i \in 1..Len(data.people) |->
     LET id == data.people[i]
         pos == IF id \in DOMAIN nodePositions THEN nodePositions[id] ELSE [x |-> 0, y |-> 0]
     IN [id |-> id, x |-> pos.x, y |-> pos.y]]

\* calculateLayout that reads every position with a non-null assertion: a
\* person without a recorded position ends the call with a TypeError
Convert_PositionsAsserted ==
  /\ pc = "roots"
  /\ rootIdx > Len(rootPeople)
  /\ IF Range(data.people) \subseteq DOMAIN nodePositions
       THEN /\ \E o \in Orientations \cup {Undefined} :
                 /\ orientationOpt' = o
                 /\ result' = transformLayout(
                                [nodes |-> Nodes,
                                 partnershipConnections |-> partnershipConnections,
                                 childConnections |-> childConnections],
                                IF o = Undefined THEN "top-down" ELSE o)
            /\ pc' = "done"
       ELSE /\ pc' = "threw"
            /\ UNCHANGED <<orientationOpt, result>>
  /\ UNCHANGED <<inputVars, outsideVars, thrown, driverVars, sessionVars, stack, returned>>

\* calculateLayout, lines 161-168.  options.orientation is read on line 123
\* and first used here, so the model draws it here.
Convert ==
  /\ pc = "roots"
  /\ rootIdx > Len(rootPeople)
  /\ \E o \in Orientations \cup {Undefined} :
       /\ orientationOpt' = o
       /\ result' = transformLayout(
                      [nodes |-> Nodes, partnershipConnections |-> partnershipConnections,
                       childConnections |-> childConnections],
                      IF o = Undefined THEN "top-down" ELSE o)
  /\ pc' = "done"
  /\ UNCHANGED <<inputVars, outsideVars, thrown, driverVars, sessionVars, stack, returned>>

\* the data prop without its last person, or without its last partnership
DropLastPerson(d) == [d EXCEPT !.people = SubSeq(@, 1, Len(@) - 1)]
DropLastPartnership(d) == [d EXCEPT !.partnerships = SubSeq(@, 1, Len(@) - 1)]

\* Rerender that keeps the verdict of the previous validation
Rerender_ValidationCached ==
  /\ pc = "done"
  /\ \/ /\ Len(data.people) > 0
        /\ data' = DropLastPerson(data)
     \/ /\ Len(data.partnerships) > 0
        /\ data' = DropLastPartnership(data)
  /\ orientationOpt' = Undefined
  /\ pc' = "calculate"
  /\ thrown' = thrown
  /\ spacing' = DEFAULT_SPACING
  /\ rootPeople' = <<>>
  /\ rootIdx' = 0
  /\ currentX' = 0
  /\ nodePositions' = <<>>
  /\ partnershipConnections' = <<>>
  /\ childConnections' = <<>>
  /\ processedPartnerships' = {}
  /\ processedPeople' = {}
  /\ stack' = <<>>
  /\ returned' = 0
  /\ result' = NoResult
  /\ given' = data'
  /\ placedBefore' = {}
  /\ UNCHANGED <<spacingOpt, rootPersonIdOpt, peopleData, remembered, storeVars, detectVars>>

\* FamilyTreeInner rendered again with a changed data prop: every derived
\* value is computed again, starting with the validation
Rerender ==
  /\ pc = "done"
  /\ \/ /\ Len(data.people) > 0
        /\ data' = DropLastPerson(data)
     \/ /\ Len(data.partnerships) > 0
        /\ data' = DropLastPartnership(data)
  /\ orientationOpt' = Undefined
  /\ pc' = "validate"
  /\ thrown' = Returned
  /\ spacing' = DEFAULT_SPACING
  /\ rootPeople' = <<>>
  /\ rootIdx' = 0
  /\ currentX' = 0
  /\ nodePositions' = <<>>
  /\ partnershipConnections' = <<>>
  /\ childConnections' = <<>>
  /\ processedPartnerships' = {}
  /\ processedPeople' = {}
  /\ stack' = <<>>
  /\ returned' = 0
  /\ result' = NoResult
  /\ given' = data'
  /\ placedBefore' = {}
  /\ UNCHANGED <<spacingOpt, rootPersonIdOpt, peopleData, remembered, storeVars, detectVars>>

Next ==
  \/ Validate
  \/ StartLayout
  \/ NextRoot
  \/ UnitEntry
  \/ UnitPartnership
  \/ UnitChild
  \/ UnitChildrenDone
  \/ UnitReturn
  \/ Convert
  \/ Rerender

\* ------------------------------------------------------------------ inputs

PersonNames == <<"a", "b", "c", "d", "e", "f">>
PartnershipNames == <<"u1", "u2", "u3", "u4">>

\* the ids a graph with defects draws from: empty, blank, and proper ones
DefectPersonIds == {"", " ", "a", "b"}
DefectPartnershipIds == {"", " ", "u1", "u2"}
DefectRefs == {"a", "b"}

DefectPartnerships ==
  [id : DefectPartnershipIds,
   partnerIds : (DefectRefs \cup {Null}) \X (DefectRefs \cup {Null}),
   childIds : SeqsUpTo(DefectRefs, 1)]

\* every small graph, well-formed or not
DefectGraphs ==
  [people : SeqsUpTo(DefectPersonIds, MaxDefectPeople),
   partnerships : SeqsUpTo(DefectPartnerships, MaxDefectPartnerships),
   rootPersonId : {Undefined, "b"}]

\* sequences over S without repetition, of length at most n
RECURSIVE DistinctSeqs(_, _)
DistinctSeqs(S, n) ==
  IF n = 0 THEN {<<>>}
  ELSE {<<>>} \cup UNION {{<<x>> \o t : t \in DistinctSeqs(S \ {x}, n - 1)} : x \in S}

\* the graphs that are laid out: distinct proper ids, partnerIds of the type
\* [string, string | null] naming one person or two, children listed once
\* and not among the partners, references that resolve
PartnershipsOver(people, id) ==
  {[id |-> id, partnerIds |-> <<t[1], t[2]>>, childIds |-> t[3]] :
     t \in {t \in people \X (people \cup {Null}) \X DistinctSeqs(people, MaxChildren) :
              /\ t[1] # t[2]
              /\ Range(t[3]) \cap {t[1], t[2]} = {}}}

RECURSIVE PartnershipListsOver(_, _)
PartnershipListsOver(people, k) ==
  IF k = 0 THEN {<<>>}
  ELSE {Append(l, p) : l \in PartnershipListsOver(people, k - 1),
                       p \in PartnershipsOver(people, PartnershipNames[k])}

GraphsUpTo(maxPeople) ==
  UNION {UNION {[people : {SubSeq(PersonNames, 1, n)},
                 partnerships : PartnershipListsOver(Range(SubSeq(PersonNames, 1, n)), k),
                 rootPersonId : {Undefined}] :
                  k \in 0..MaxPartnerships} :
           n \in 0..maxPeople}

LayoutGraphs == GraphsUpTo(MaxPeople)

\* the graphs calculateLayout is called on again and again
CallGraphs == GraphsUpTo(MaxCallPeople)

\* the graphs whose layout is followed to its end
ReturnGraphs == GraphsUpTo(MaxReturnPeople)

\* the graphs calculateLayout is called on without validation
UnvalidatedGraphs == GraphsUpTo(MaxReturnPeople)

\* a family across generations: b alone, c with b, b with d, a alone, each
\* household with any children, and e who belongs to no household
CrossGenerationHouseholds == <<<<"b", Null>>, <<"c", "b">>, <<"b", "d">>, <<"a", Null>>>>

RECURSIVE HouseholdLists(_)
HouseholdLists(k) ==
  IF k = 0 THEN {<<>>}
  ELSE {Append(l, [id |-> PartnershipNames[k],
                   partnerIds |-> CrossGenerationHouseholds[k],
                   childIds |-> c]) :
          l \in HouseholdLists(k - 1),
          c \in {c \in DistinctSeqs({"a", "b", "c", "d"}, MaxChildren) :
                   Range(c) \cap Range(CrossGenerationHouseholds[k]) = {}}}

CrossGenerationGraphs ==
  [people : {SubSeq(PersonNames, 1, 5)},
   partnerships : HouseholdLists(Len(CrossGenerationHouseholds)),
   rootPersonId : {Undefined}]

\* options.spacing: not given, or every key set (a partner gap wider than the
\* sibling gap, where the default is the other way round)
SpacingOptions ==
  {<<>>, [generation |-> 40, siblings |-> 20, partners |-> 60]}

\* ------------------------------------------------------------------ the tree store
\* createTreeStore of treeStore.ts. Zoom levels are counted in tenths: 10 is
\* the zoom level 1, DEFAULT_ZOOM_STEP 0.2 is 2.

DEFAULT_ZOOM_STEP == 2

InitialZoom == 10

DefaultMinZoom == 1

DefaultMaxZoom == 30

Min(a, b) == IF a < b THEN a ELSE b

\* const initialState, as the module is loaded
InitialStateObject ==
  [zoom |-> InitialZoom, panX |-> 0, panY |-> 0,
   selectedPersonId |-> Null, hoveredPersonId |-> Null,
   expandedIds |-> {}, rootPersonId |-> Null, visibleNodeIds |-> <<>>]

\* the callback fields a created store starts with
NoCallbacks == [_centerOnPersonCallback |-> Null, _fitToViewCallback |-> Null]

\* zustand's set(partial): the keys of partial replace those of the state
SetState(state, partial) ==
  [k \in DOMAIN state |-> IF k \in DOMAIN partial THEN partial[k] ELSE state[k]]

\* createTreeStore(minZoom, maxZoom): { ...initialState, callbacks null }
createTreeStore(min, max) ==
  /\ minZoom = min
  /\ maxZoom = max
  /\ initialState = InitialStateObject
  /\ storeState = [k \in (DOMAIN InitialStateObject) \cup (DOMAIN NoCallbacks) |->
                     IF k \in DOMAIN NoCallbacks THEN NoCallbacks[k]
                     ELSE InitialStateObject[k]]
  /\ expandedIdsRef = "initialState"
  /\ beforeReset = <<>>

\* what every store action but an in-place mutation leaves alone
StoreFrame == UNCHANGED <<renderVars, historyVars, detectVars, minZoom, maxZoom, initialState>>

_registerCallbacks(centerOnPerson, fitToView) ==
  /\ storeState' = SetState(storeState, [_centerOnPersonCallback |-> centerOnPerson,
                                         _fitToViewCallback |-> fitToView])
  /\ beforeReset' = <<>>
  /\ UNCHANGED expandedIdsRef
  /\ StoreFrame

_unregisterCallbacks ==
  /\ storeState' = SetState(storeState, [_centerOnPersonCallback |-> Null,
                                         _fitToViewCallback |-> Null])
  /\ beforeReset' = <<>>
  /\ UNCHANGED expandedIdsRef
  /\ StoreFrame

setZoom(zoom) ==
  /\ storeState' = SetState(storeState, [zoom |-> Min(maxZoom, Max(minZoom, zoom))])
  /\ beforeReset' = <<>>
  /\ UNCHANGED expandedIdsRef
  /\ StoreFrame

\* zoomIn(step = DEFAULT_ZOOM_STEP)
zoomIn(step) ==
  /\ Abs(storeState.zoom + step) <= MaxZoomMagnitude
  /\ storeState' = SetState(storeState, [zoom |-> Min(maxZoom, storeState.zoom + step)])
  /\ beforeReset' = <<>>
  /\ UNCHANGED expandedIdsRef
  /\ StoreFrame

\* zoomOut(step = DEFAULT_ZOOM_STEP)
zoomOut(step) ==
  /\ Abs(storeState.zoom - step) <= MaxZoomMagnitude
  /\ storeState' = SetState(storeState, [zoom |-> Max(minZoom, storeState.zoom - step)])
  /\ beforeReset' = <<>>
  /\ UNCHANGED expandedIdsRef
  /\ StoreFrame

setPan(x, y) ==
  /\ storeState' = SetState(storeState, [panX |-> x, panY |-> y])
  /\ beforeReset' = <<>>
  /\ UNCHANGED expandedIdsRef
  /\ StoreFrame

panBy(dx, dy) ==
  /\ Abs(storeState.panX + dx) <= MaxPan
  /\ Abs(storeState.panY + dy) <= MaxPan
  /\ storeState' = SetState(storeState, [panX |-> storeState.panX + dx,
                                         panY |-> storeState.panY + dy])
  /\ beforeReset' = <<>>
  /\ UNCHANGED expandedIdsRef
  /\ StoreFrame

setSelectedPersonId(id) ==
  /\ storeState' = SetState(storeState, [selectedPersonId |-> id])
  /\ beforeReset' = <<>>
  /\ UNCHANGED expandedIdsRef
  /\ StoreFrame

setHoveredPersonId(id) ==
  /\ storeState' = SetState(storeState, [hoveredPersonId |-> id])
  /\ beforeReset' = <<>>
  /\ UNCHANGED expandedIdsRef
  /\ StoreFrame

\* newExpanded.has(personId) ? delete : add
Toggled(expanded, personId) ==
  IF personId \in expanded THEN expanded \ {personId} ELSE expanded \cup {personId}

\* toggleBranch that flips the id in the Set the state holds
toggleBranch_InPlace(personId) ==
  /\ storeState' = SetState(storeState,
                            [expandedIds |-> Toggled(storeState.expandedIds, personId)])
  /\ initialState' = IF expandedIdsRef = "initialState"
                     THEN [initialState EXCEPT !.expandedIds = Toggled(@, personId)]
                     ELSE initialState
  /\ beforeReset' = <<>>
  /\ UNCHANGED <<renderVars, historyVars, detectVars, minZoom, maxZoom, expandedIdsRef>>

\* toggleBranch: a copy of the Set is changed and stored
toggleBranch(personId) ==
  /\ storeState' = SetState(storeState,
                            [expandedIds |-> Toggled(storeState.expandedIds, personId)])
  /\ expandedIdsRef' = "copy"
  /\ beforeReset' = <<>>
  /\ StoreFrame

\* expandAll(allIds): new Set(allIds)
expandAll(allIds) ==
  /\ storeState' = SetState(storeState, [expandedIds |-> Range(allIds)])
  /\ expandedIdsRef' = "copy"
  /\ beforeReset' = <<>>
  /\ StoreFrame

\* collapseAll: new Set()
collapseAll ==
  /\ storeState' = SetState(storeState, [expandedIds |-> {}])
  /\ expandedIdsRef' = "copy"
  /\ beforeReset' = <<>>
  /\ StoreFrame

\* setExpandedIds(ids): the caller's Set is stored
setExpandedIds(ids) ==
  /\ storeState' = SetState(storeState, [expandedIds |-> ids])
  /\ expandedIdsRef' = "caller"
  /\ beforeReset' = <<>>
  /\ StoreFrame

setRootPersonId(id) ==
  /\ storeState' = SetState(storeState, [rootPersonId |-> id])
  /\ beforeReset' = <<>>
  /\ UNCHANGED expandedIdsRef
  /\ StoreFrame

setVisibleNodeIds(ids) ==
  /\ storeState' = SetState(storeState, [visibleNodeIds |-> ids])
  /\ beforeReset' = <<>>
  /\ UNCHANGED expandedIdsRef
  /\ StoreFrame

\* reset: set(initialState)
reset ==
  /\ storeState' = SetState(storeState, initialState)
  /\ expandedIdsRef' = "initialState"
  /\ beforeReset' = <<storeState>>
  /\ StoreFrame

\* the arguments the store's actions are called with
ZoomArgs == {-5, 100}
StepArgs == {DEFAULT_ZOOM_STEP, -20}
PanArgs == {<<5, -5>>}
StoreIds == {Null, "a"}
ExpandableIds == {"a", "b"}
ZoomBounds == {<<DefaultMinZoom, DefaultMaxZoom>>, <<5, 20>>, <<InitialZoom, InitialZoom>>}

NextStore ==
  \/ _registerCallbacks("centerOnPerson", "fitToView")
  \/ _unregisterCallbacks
  \/ \E z \in ZoomArgs : setZoom(z)
  \/ \E step \in StepArgs : zoomIn(step)
  \/ \E step \in StepArgs : zoomOut(step)
  \/ \E p \in PanArgs : setPan(p[1], p[2])
  \/ \E p \in PanArgs : panBy(p[1], p[2])
  \/ \E id \in StoreIds : setSelectedPersonId(id)
  \/ \E id \in StoreIds : setHoveredPersonId(id)
  \/ \E id \in ExpandableIds : toggleBranch(id)
  \/ expandAll(<<"a", "b">>)
  \/ collapseAll
  \/ \E ids \in SUBSET ExpandableIds : setExpandedIds(ids)
  \/ \E id \in StoreIds : setRootPersonId(id)
  \/ \E ids \in {<<>>, <<"a">>} : setVisibleNodeIds(ids)
  \/ reset

\* ------------------------------------------------------------------ repeated calls

\* the arguments and the result of the calculateLayout call that has returned
ThisCall ==
  [data |-> data, spacingOpt |-> spacingOpt, orientationOpt |-> orientationOpt,
   rootPersonIdOpt |-> rootPersonIdOpt, peopleData |-> peopleData, result |-> result]

\* The caller keeps the first LayoutResult it got and renders again: the same
\* graph, the graph of the kept call, or a shorter graph, with any spacing.
\* The maps, sets and lists of the call that returned are garbage: nothing
\* here clears them, the next call makes its own.
Reinvoke ==
  /\ pc = "done"
  /\ remembered' = IF remembered = <<>> THEN <<ThisCall>> ELSE remembered
  /\ data' \in {data, remembered'[1].data}
                 \cup (IF Len(data.people) > 0 THEN {DropLastPerson(data)} ELSE {})
                 \cup (IF Len(data.partnerships) > 0 THEN {DropLastPartnership(data)} ELSE {})
  /\ given' = data'
  /\ placedBefore' = {}
  /\ spacingOpt' \in SpacingOptions
  /\ orientationOpt' = Undefined
  /\ result' = NoResult
  /\ pc' = "validate"
  /\ UNCHANGED <<rootPersonIdOpt, peopleData, thrown, driverVars, sessionVars, stack,
                 returned, storeVars, detectVars>>

\* the payloads a person carries: none, or something of the caller's
Payloads == {Undefined, "payload"}

\* The caller keeps the first LayoutResult it got and renders the same people
\* and partnerships again with the same spacing, with another root hint in
\* the data or in the options, or with other payloads on the people.
Rehint ==
  /\ pc = "done"
  /\ remembered' = IF remembered = <<>> THEN <<ThisCall>> ELSE remembered
  /\ \E id \in Range(data.people) \cup {Undefined} : data' = [data EXCEPT !.rootPersonId = id]
  /\ rootPersonIdOpt' \in Range(data.people) \cup {Undefined}
  /\ peopleData' \in [Range(data.people) -> Payloads]
  /\ given' = data'
  /\ placedBefore' = {}
  /\ orientationOpt' = Undefined
  /\ result' = NoResult
  /\ pc' = "validate"
  /\ UNCHANGED <<spacingOpt, thrown, driverVars, sessionVars, stack, returned, storeVars, detectVars>>

NextHints ==
  \/ Next
  \/ Rehint

NextCalls ==
  \/ Next
  \/ Reinvoke

\* ------------------------------------------------------------------ the validator, step by step

\* validateFamilyTreeData up to the call of detectCircularReferences
CheckRecords(d) ==
  LET people == ValidatePeople(d.people, 1, {}) IN
  IF people.res.threw THEN people.res
  ELSE LET partnerships == ValidatePartnerships(d.partnerships, 1, people.personIds, {}) IN
    IF partnerships.threw THEN partnerships
    ELSE IF d.rootPersonId # Undefined /\ d.rootPersonId \notin people.personIds
      THEN ValidationError(<<"rootPersonId references non-existent person: ", d.rootPersonId>>)
    ELSE Returned

\* validateFamilyTreeData, lines 17-78, and detectCircularReferences, line 117
ValidateRecords ==
  /\ pc = "validate"
  /\ thrown' = CheckRecords(data)
  /\ IF thrown'.threw
       THEN /\ pc' = "threw"
            /\ UNCHANGED personIdx
       ELSE /\ pc' = "detect"
            /\ personIdx' = 1
  /\ UNCHANGED <<inputVars, historyVars, storeVars, queue, visited, orientationOpt, driverVars,
                 sessionVars, stack, returned, result>>

\* for (const person of data.people): a new visited set and the queue of the
\* person's parents, or the end of the list and the return
DetectPerson ==
  /\ pc = "detect"
  /\ IF personIdx > Len(data.people)
       THEN /\ pc' = "calculate"
            /\ UNCHANGED <<queue, visited>>
       ELSE /\ visited' = {}
            /\ queue' = buildParentMap(data)[data.people[personIdx]]
            /\ pc' = "ancestors"
  /\ UNCHANGED <<inputVars, historyVars, storeVars, personIdx, orientationOpt, thrown, driverVars,
                 sessionVars, stack, returned, result>>

\* one turn of while (queue.length > 0) that enqueues the parents of every
\* ancestor it takes from the queue, visited or not
AncestorStep_VisitedIgnored ==
  /\ pc = "ancestors"
  /\ queue # <<>>
  /\ LET parentMap == buildParentMap(data)
         personId == data.people[personIdx]
         ancestorId == Head(queue)
     IN IF ancestorId = personId
          THEN /\ thrown' = ValidationError(<<"Circular reference detected: ", personId,
                                              " is their own ancestor">>)
               /\ pc' = "threw"
               /\ UNCHANGED <<queue, visited>>
          ELSE /\ visited' = visited \cup {ancestorId}
               /\ queue' = Tail(queue) \o (IF ancestorId \in DOMAIN parentMap
                                              THEN parentMap[ancestorId] ELSE <<>>)
               /\ UNCHANGED <<thrown, pc>>
  /\ UNCHANGED <<inputVars, historyVars, storeVars, personIdx, orientationOpt, driverVars,
                 sessionVars, stack, returned, result>>

\* one turn of while (queue.length > 0), lines 124-140
AncestorStep ==
  /\ pc = "ancestors"
  /\ queue # <<>>
  /\ LET parentMap == buildParentMap(data)
         personId == data.people[personIdx]
         ancestorId == Head(queue)
     IN IF ancestorId = personId
          THEN /\ thrown' = ValidationError(<<"Circular reference detected: ", personId,
                                              " is their own ancestor">>)
               /\ pc' = "threw"
               /\ UNCHANGED <<queue, visited>>
          ELSE IF ancestorId \notin visited
            THEN /\ visited' = visited \cup {ancestorId}
                 /\ queue' = Tail(queue) \o (IF ancestorId \in DOMAIN parentMap
                                                THEN parentMap[ancestorId] ELSE <<>>)
                 /\ UNCHANGED <<thrown, pc>>
            ELSE /\ queue' = Tail(queue)
                 /\ UNCHANGED <<visited, thrown, pc>>
  /\ UNCHANGED <<inputVars, historyVars, storeVars, personIdx, orientationOpt, driverVars,
                 sessionVars, stack, returned, result>>

\* the queue is empty: on to the next person
AncestorsDone ==
  /\ pc = "ancestors"
  /\ queue = <<>>
  /\ personIdx' = personIdx + 1
  /\ pc' = "detect"
  /\ UNCHANGED <<inputVars, historyVars, storeVars, queue, visited, orientationOpt, thrown,
                 driverVars, sessionVars, stack, returned, result>>

NextValidator ==
  \/ ValidateRecords
  \/ DetectPerson
  \/ AncestorStep
  \/ AncestorsDone

\* ------------------------------------------------------------------ specifications

\* detectCircularReferences is not running
NotDetecting ==
  /\ personIdx = 0
  /\ queue = <<>>
  /\ visited = {}

\* nothing outside the render has happened
Untouched ==
  /\ NotDetecting
  /\ given = data
  /\ remembered = <<>>
  /\ placedBefore = {}
  /\ createTreeStore(DefaultMinZoom, DefaultMaxZoom)

NoData == [people |-> <<>>, partnerships |-> <<>>, rootPersonId |-> Undefined]

Init ==
  /\ data \in DefectGraphs
  /\ spacingOpt = <<>>
  /\ NoHints
  /\ Fresh
  /\ Untouched

InitLayout ==
  /\ data \in LayoutGraphs
  /\ spacingOpt \in SpacingOptions
  /\ NoHints
  /\ Fresh
  /\ Untouched

InitCalls ==
  /\ data \in CallGraphs
  /\ spacingOpt \in SpacingOptions
  /\ NoHints
  /\ Fresh
  /\ Untouched

InitCrossGeneration ==
  /\ data \in CrossGenerationGraphs
  /\ spacingOpt \in SpacingOptions
  /\ NoHints
  /\ Fresh
  /\ Untouched

InitStore ==
  /\ data = NoData
  /\ spacingOpt = <<>>
  /\ NoHints
  /\ Fresh
  /\ given = data
  /\ remembered = <<>>
  /\ placedBefore = {}
  /\ NotDetecting
  /\ \E b \in ZoomBounds : createTreeStore(b[1], b[2])

Spec == Init /\ [][Next]_vars

SpecLayout == InitLayout /\ [][Next]_vars

\* calculateLayout is synchronous: once called, each of its steps is followed
\* by the next until it returns
LayoutStep ==
  \/ StartLayout
  \/ NextRoot
  \/ UnitEntry
  \/ UnitPartnership
  \/ UnitChild
  \/ UnitChildrenDone
  \/ UnitReturn
  \/ Convert

InitReturn ==
  /\ data \in ReturnGraphs
  /\ spacingOpt \in SpacingOptions
  /\ NoHints
  /\ Fresh
  /\ Untouched

FairSpecLayout == InitReturn /\ [][Next]_vars /\ WF_vars(LayoutStep)

\* calculateLayout called on a graph nobody validated: the ids are proper
\* and the references resolve, the parent relation may have cycles
InitEngine ==
  /\ data \in UnvalidatedGraphs
  /\ spacingOpt \in SpacingOptions
  /\ NoHints
  /\ orientationOpt = Undefined
  /\ pc = "calculate"
  /\ thrown = Returned
  /\ spacing = DEFAULT_SPACING
  /\ rootPeople = <<>>
  /\ rootIdx = 0
  /\ currentX = 0
  /\ nodePositions = <<>>
  /\ partnershipConnections = <<>>
  /\ childConnections = <<>>
  /\ processedPartnerships = {}
  /\ processedPeople = {}
  /\ stack = <<>>
  /\ returned = 0
  /\ result = NoResult
  /\ Untouched

FairSpecEngine == InitEngine /\ [][LayoutStep]_vars /\ WF_vars(LayoutStep)

\* validateFamilyTreeData is synchronous as well
InitValidator ==
  /\ data \in UnvalidatedGraphs
  /\ spacingOpt = <<>>
  /\ NoHints
  /\ Fresh
  /\ Untouched

FairSpecValidator == InitValidator /\ [][NextValidator]_vars /\ WF_vars(NextValidator)

SpecCalls == InitCalls /\ [][NextCalls]_vars

SpecHints == InitCalls /\ [][NextHints]_vars

SpecCrossGeneration == InitCrossGeneration /\ [][Next]_vars

SpecStore == InitStore /\ [][NextStore]_vars

\* ------------------------------------------------------------------ data-model invariants
\* The invariants of the data model, stated on the graph alone.

BlankIds == {"", " "}

People(g) == Range(g.people)

\* <<child, parent>> for every child of every partnership and each of its parents
ParentPairs(g) ==
  UNION {{<<g.partnerships[j].childIds[k], g.partnerships[j].partnerIds[s]>> :
            k \in 1..Len(g.partnerships[j].childIds),
            s \in {s \in 1..2 : g.partnerships[j].partnerIds[s] # Null}} :
         j \in 1..Len(g.partnerships)}

ParentsIn(pairs, S) == {pr[2] : pr \in {q \in pairs : q[1] \in S}}

RECURSIVE UpClosure(_, _)
UpClosure(pairs, S) ==
  LET T == S \cup ParentsIn(pairs, S) IN IF T = S THEN S ELSE UpClosure(pairs, T)

Ancestors(g, x) == UpClosure(ParentPairs(g), ParentsIn(ParentPairs(g), {x}))

OwnAncestors(g) == {x \in People(g) : x \in Ancestors(g, x)}

WellFormed(g) ==
  /\ \A i \in 1..Len(g.people) : g.people[i] \notin BlankIds
  /\ \A i, j \in 1..Len(g.people) : i # j => g.people[i] # g.people[j]
  /\ \A i \in 1..Len(g.partnerships) : g.partnerships[i].id \notin BlankIds
  /\ \A i, j \in 1..Len(g.partnerships) :
       i # j => g.partnerships[i].id # g.partnerships[j].id
  /\ \A i \in 1..Len(g.partnerships) :
       LET u == g.partnerships[i] IN
       /\ ~(u.partnerIds[1] = Null /\ u.partnerIds[2] = Null)
       /\ \A s \in 1..2 : u.partnerIds[s] # Null => u.partnerIds[s] \in People(g)
       /\ \A k \in 1..Len(u.childIds) : u.childIds[k] \in People(g)
  /\ g.rootPersonId # Undefined => g.rootPersonId \in People(g)
  /\ OwnAncestors(g) = {}

\* The defects of a graph, each with the error kind documented for it, the
\* ids that identify it, its category in the documented check order
\* (1 person ids, 2 partnership ids, 3 no parent, 4 dangling parent,
\* 5 dangling child, 6 dangling root, 7 cycle) and its place in the lists.
Defect(kind, cat, stage, at, sub, ids) ==
  [kind |-> kind, cat |-> cat, stage |-> stage, at |-> at, sub |-> sub, ids |-> ids]

PersonDefects(g) ==
  {Defect("malformed-data", 1, 1, i, 0, <<>>) :
     i \in {i \in 1..Len(g.people) : g.people[i] \in BlankIds}}
  \cup
  {Defect("duplicate-id", 1, 1, i, 0, <<g.people[i]>>) :
     i \in {i \in 1..Len(g.people) :
              /\ g.people[i] \notin BlankIds
              /\ \E j \in 1..(i - 1) : g.people[j] = g.people[i]}}

PartnershipDefects(g, j) ==
  LET u == g.partnerships[j] IN
  (IF u.id \in BlankIds THEN {Defect("malformed-data", 2, 2, j, 0, <<>>)} ELSE {})
  \cup
  (IF u.id \notin BlankIds /\ \E i \in 1..(j - 1) : g.partnerships[i].id = u.id
     THEN {Defect("duplicate-id", 2, 2, j, 0, <<u.id>>)} ELSE {})
  \cup
  (IF u.partnerIds[1] = Null /\ u.partnerIds[2] = Null
     THEN {Defect("empty-partnership", 3, 2, j, 0, <<u.id>>)} ELSE {})
  \cup
  {Defect("dangling-reference", 4, 2, j, s, <<u.id, u.partnerIds[s]>>) :
     s \in {s \in 1..2 : u.partnerIds[s] # Null /\ u.partnerIds[s] \notin People(g)}}
  \cup
  {Defect("dangling-reference", 5, 2, j, k, <<u.id, u.childIds[k]>>) :
     k \in {k \in 1..Len(u.childIds) : u.childIds[k] \notin People(g)}}

\* one cycle defect, however many people lie on cycles; it is identified by
\* the first person of the list who is their own ancestor
FirstOwnAncestor(g) ==
  g.people[CHOOSE i \in 1..Len(g.people) :
             /\ g.people[i] \in OwnAncestors(g)
             /\ \A j \in 1..(i - 1) : g.people[j] \notin OwnAncestors(g)]

Defects(g) ==
  PersonDefects(g)
  \cup UNION {PartnershipDefects(g, j) : j \in 1..Len(g.partnerships)}
  \cup (IF g.rootPersonId # Undefined /\ g.rootPersonId \notin People(g)
          THEN {Defect("dangling-reference", 6, 3, 0, 0, <<g.rootPersonId>>)} ELSE {})
  \cup (IF OwnAncestors(g) # {}
          THEN {Defect("circular-reference", 7, 4, 0, 0, <<FirstOwnAncestor(g)>>)} ELSE {})

\* what a thrown error says: the documented kind its message stands for, the
\* category, and the ids the message interpolates
ErrorCategory(err) ==
  LET m == err.message IN
  CASE m[1] = "Person has empty ID" -> 1
    [] m[1] = "Duplicate person ID: " -> 1
    [] m[1] = "Partnership has empty ID" -> 2
    [] m[1] = "Duplicate partnership ID: " -> 2
    [] m[1] = "Partnership " /\ m[3] = " must have at least one partner" -> 3
    [] m[1] = "Partnership " /\ m[3] = " references non-existent person: " -> 4
    [] m[1] = "Partnership " /\ m[3] = " references non-existent child: " -> 5
    [] m[1] = "rootPersonId references non-existent person: " -> 6
    [] m[1] = "Circular reference detected: " -> 7

ErrorKind(err) ==
  LET m == err.message IN
  CASE m[1] \in {"Person has empty ID", "Partnership has empty ID"} -> "malformed-data"
    [] m[1] \in {"Duplicate person ID: ", "Duplicate partnership ID: "} -> "duplicate-id"
    [] ErrorCategory(err) = 3 -> "empty-partnership"
    [] ErrorCategory(err) \in {4, 5, 6} -> "dangling-reference"
    [] ErrorCategory(err) = 7 -> "circular-reference"

ErrorIds(err) ==
  LET m == err.message IN
  CASE ErrorCategory(err) \in {1, 2} -> IF Len(m) = 1 THEN <<>> ELSE <<m[2]>>
    [] ErrorCategory(err) = 3 -> <<m[2]>>
    [] ErrorCategory(err) \in {4, 5} -> <<m[2], m[4]>>
    [] ErrorCategory(err) \in {6, 7} -> <<m[2]>>

\* the validator has run on the current data
Validated == pc # "validate"

\* ------------------------------------------------------------------ claims

\* C1: validateFamilyTreeData returns normally if and only if the graph
\* satisfies every data-model invariant (ids non-blank and unique within their
\* kind, a parent in every partnership, every reference and the root hint
\* resolve, nobody is their own ancestor); for every other graph it raises.
C1_ReturnsIffWellFormed ==
  Validated => (thrown.threw <=> ~WellFormed(data))

\* a graph the validator accepted in which a person is reached from a child
\* through two partnerships: a shared ancestor, not a cycle
C1_Witness ==
  /\ pc = "calculate"
  /\ ~thrown.threw
  /\ Len(data.partnerships) = 2
  /\ \E c \in People(data) :
       /\ c \in Range(data.partnerships[1].childIds)
       /\ c \in Range(data.partnerships[2].childIds)
       /\ data.partnerships[1].partnerIds[1] = data.partnerships[2].partnerIds[2]

\* C2: for a graph with exactly one defect, the validator raises the error
\* kind documented for that defect, and the ids its message carries are the
\* offending ones (the message of a blank id carries none).
C2_SingleDefectKind ==
  (Validated /\ Cardinality(Defects(data)) = 1) =>
    /\ thrown.threw
    /\ \A d \in Defects(data) :
         /\ ErrorKind(thrown) = d.kind
         /\ ErrorIds(thrown) = d.ids

\* the only defect is a cycle through two partnerships
C2_Witness ==
  /\ pc = "threw"
  /\ Cardinality(Defects(data)) = 1
  /\ ErrorKind(thrown) = "circular-reference"
  /\ \A x \in OwnAncestors(data) : <<x, x>> \notin ParentPairs(data)

\* the check order of the code: all people, then partnership by partnership
\* (within one: id, no parent, first and second parent, children in order),
\* then the root hint, then cycles
CheckOrder(d) == d.stage * 10000 + d.at * 100 + d.cat * 10 + d.sub

FirstDefect(g) ==
  LET D == Defects(g) IN CHOOSE d \in D : \A e \in D : CheckOrder(d) <= CheckOrder(e)

EarliestCategory(g) ==
  CHOOSE c \in 1..7 :
    /\ \E d \in Defects(g) : d.cat = c
    /\ \A d \in Defects(g) : c <= d.cat

\* C3 as stated: with several defects the error raised is of the category
\* that comes first in the fixed category order, wherever the defects are.
C3_EarliestCategoryRaised ==
  (Validated /\ Defects(data) # {}) =>
    (thrown.threw /\ ErrorCategory(thrown) = EarliestCategory(data))

\* C3 amended: with several defects exactly one error is raised, that of the
\* first defect in check order: people first, then the partnerships one by
\* one in list order with the category order inside each, then the root
\* hint, then cycles.
C3_FirstDefectRaised ==
  (Validated /\ Defects(data) # {}) =>
    LET first == FirstDefect(data)
    IN /\ thrown.threw
       /\ ErrorCategory(thrown) = first.cat
       /\ ErrorKind(thrown) = first.kind
       /\ ErrorIds(thrown) = first.ids

\* the first partnership has a later-category defect than the second, and the
\* first partnership's defect is the one raised
C3_Witness ==
  /\ pc = "threw"
  /\ Cardinality(Defects(data)) >= 2
  /\ FirstDefect(data).cat > EarliestCategory(data)
  /\ ErrorCategory(thrown) = FirstDefect(data).cat

\* the session holds no coordinate and no connection, and no result is returned
NothingComputed ==
  /\ nodePositions = <<>>
  /\ partnershipConnections = <<>>
  /\ childConnections = <<>>
  /\ stack = <<>>
  /\ result = NoResult

\* C4: validation runs first on every render: calculateLayout is never
\* started for a graph the validator rejects, the error is raised before any
\* coordinate is computed, and no LayoutResult, not even a partial one, is
\* produced for it.
C4_NoLayoutForRejectedGraph ==
  ~WellFormed(data) => (pc \in {"validate", "threw"} /\ NothingComputed)

\* the render of a graph with an ancestry cycle ended in the throw
C4_Witness ==
  /\ pc = "threw"
  /\ ErrorKind(thrown) = "circular-reference"
  /\ NothingComputed

\* ---------------------------------------------------------------------------
\* The layout as a caller reads it from the LayoutResult
\* ---------------------------------------------------------------------------

LaidOut == pc = "done"


\* the generation axis is y in top-down and bottom-up, x in left-right and
\* right-left; the sibling axis is the other one
Vertical(o) == o \in {"top-down", "bottom-up"}
GenerationCoord(pt, o) == IF Vertical(o) THEN pt.y ELSE pt.x
SiblingCoord(pt, o) == IF Vertical(o) THEN pt.x ELSE pt.y

\* descendants are drawn towards larger coordinates in top-down and
\* left-right, towards smaller ones in bottom-up and right-left
GenerationSign(o) == IF o \in {"top-down", "left-right"} THEN 1 ELSE 0 - 1

NodeOf(id) == CHOOSE n \in Range(result.nodes) : n.id = id
Gen(id) == GenerationCoord(NodeOf(id), result.orientation)
Sib(id) == SiblingCoord(NodeOf(id), result.orientation)

\* the PartnershipConnections of the result drawn for partnership p
ConnectionsOf(p) ==
  {i \in 1..Len(result.partnershipConnections) :
     result.partnershipConnections[i].partnershipId = p.id}

Processed(p) == ConnectionsOf(p) # {}

\* no PartnershipConnection before the i-th names the person
FirstNaming(i, id) ==
  \A j \in 1..(i - 1) :
    id \notin {result.partnershipConnections[j].partner1Id,
               result.partnershipConnections[j].partner2Id}

\* the partnership is processed and no earlier processed partnership names
\* one of its partners
PlacesItsPartners(p) ==
  \E i \in ConnectionsOf(p) :
    \A s \in 1..2 : p.partnerIds[s] # Null => FirstNaming(i, p.partnerIds[s])

TwoPartners(p) ==
  p.partnerIds[1] # Null /\ p.partnerIds[2] # Null /\ p.partnerIds[1] # p.partnerIds[2]

\* how many times the graph lists the person as a child
ChildOccurrences(g, id) ==
  Cardinality({jk \in UNION {{<<j, k>> : k \in 1..Len(g.partnerships[j].childIds)} :
                             j \in 1..Len(g.partnerships)} :
                 g.partnerships[jk[1]].childIds[jk[2]] = id})

\* a person without partnerships of their own
Single(g, id) == getPartnershipsForPerson(id, g) = <<>>

\* a person without partnerships of their own whom exactly one partnership
\* lists as a child, once
LeafChild(g, id) == Single(g, id) /\ ChildOccurrences(g, id) = 1

\* the traversal placed every person and drew every partnership
EveryoneLaidOut ==
  /\ People(data) \subseteq DOMAIN nodePositions
  /\ \A j \in 1..Len(data.partnerships) : Processed(data.partnerships[j])

\* every ChildConnection ends on the node of its child
ChildPointsOnNodes ==
  \A i \in 1..Len(result.childConnections) :
    LET c == result.childConnections[i]
    IN c.childPoint = [x |-> NodeOf(c.childId).x, y |-> NodeOf(c.childId).y]

\* every child is one generation gap from each of its parents, on the side
\* the orientation gives
ChildrenOneGenerationBelow ==
  \A j \in 1..Len(data.partnerships) :
    LET p == data.partnerships[j]
    IN \A c \in Range(p.childIds) :
         \A a \in {p.partnerIds[1], p.partnerIds[2]} \ {Null} :
           Gen(c) = Gen(a) + GenerationSign(result.orientation) * spacing.generation

\* the people can be numbered by generation: partners share a number and a
\* child has its parents' number plus one
Layered(g) ==
  \E level \in [People(g) -> 0..Max(0, Len(g.people) - 1)] :
    \A j \in 1..Len(g.partnerships) :
      LET p == g.partnerships[j]
          partners == {p.partnerIds[1], p.partnerIds[2]} \ {Null}
      IN /\ \A a, b \in partners : level[a] = level[b]
         /\ \A a \in partners : \A c \in Range(p.childIds) : level[c] = level[a] + 1

\* ---------------------------------------------------------------------------
\* C5
\* ---------------------------------------------------------------------------

\* C5: for every graph the validator accepts, calculateLayout returns exactly
\* one LayoutNode per input person: as many nodes as people, the node ids are
\* exactly the person ids (in the order of the people list), and no id occurs
\* twice.
C5_OneNodePerPerson ==
  LaidOut =>
    /\ Len(result.nodes) = Len(data.people)
    /\ \A i \in 1..Len(data.people) : result.nodes[i].id = data.people[i]
    /\ {result.nodes[i].id : i \in 1..Len(result.nodes)} = People(data)
    /\ \A i, j \in 1..Len(result.nodes) :
         result.nodes[i].id = result.nodes[j].id => i = j

\* a layout of three or more people one of whom the traversal never placed:
\* that person has a node all the same
C5_Witness ==
  /\ LaidOut
  /\ Len(data.people) >= 3
  /\ \E id \in People(data) : id \notin DOMAIN nodePositions
  /\ Len(result.nodes) = Len(data.people)

\* ---------------------------------------------------------------------------
\* C6
\* ---------------------------------------------------------------------------

\* C6 as stated: in every partnership of the graph with two partners, the
\* partners' nodes share the generation coordinate and are exactly
\* spacing.partners apart on the sibling axis, in every orientation.
C6_PartnersOneGapApart ==
  LaidOut =>
    \A j \in 1..Len(data.partnerships) :
      LET p == data.partnerships[j]
      IN TwoPartners(p) =>
           /\ Gen(p.partnerIds[1]) = Gen(p.partnerIds[2])
           /\ Abs(Sib(p.partnerIds[2]) - Sib(p.partnerIds[1])) = spacing.partners

\* C6 amended: in every processed partnership with two different partners
\* that is the first processed partnership to name either of them, the
\* partners' nodes share the generation coordinate and the second partner is
\* exactly spacing.partners after the first on the sibling axis, in every
\* orientation.
C6_FirstPlacedPartnersOneGapApart ==
  LaidOut =>
    \A j \in 1..Len(data.partnerships) :
      LET p == data.partnerships[j]
      IN (TwoPartners(p) /\ PlacesItsPartners(p)) =>
           /\ Gen(p.partnerIds[1]) = Gen(p.partnerIds[2])
           /\ Sib(p.partnerIds[2]) - Sib(p.partnerIds[1]) = spacing.partners

\* a right-left layout of a person with two partners: the first partnership
\* places its partners one gap apart, the second finds the person placed
C6_Witness ==
  /\ LaidOut
  /\ result.orientation = "right-left"
  /\ \E j, k \in 1..Len(data.partnerships) :
       LET p == data.partnerships[j]
           q == data.partnerships[k]
       IN /\ j # k
          /\ TwoPartners(p) /\ TwoPartners(q)
          /\ p.partnerIds[1] \in {q.partnerIds[1], q.partnerIds[2]}
          /\ PlacesItsPartners(p)
          /\ Processed(q) /\ ~PlacesItsPartners(q)
          /\ Sib(p.partnerIds[2]) - Sib(p.partnerIds[1]) = spacing.partners

\* ---------------------------------------------------------------------------
\* C7
\* ---------------------------------------------------------------------------

\* C7: for every partnership and every child listed in it, the child's node
\* is exactly spacing.generation from each parent's node on the generation
\* axis, in the direction of the orientation, whatever the order of the
\* people and partnerships lists.  Stated here for the graphs whose people
\* can be numbered by generation, and for the layouts in which every person
\* was placed and every partnership drawn.
C7_ChildOneGenerationBelow ==
  (LaidOut /\ Layered(data) /\ EveryoneLaidOut) => ChildrenOneGenerationBelow

\* ---------------------------------------------------------------------------
\* C8
\* ---------------------------------------------------------------------------

\* C8 as stated: in every partnership with at least two children, two
\* children consecutive in childIds share the generation coordinate and are
\* exactly spacing.siblings apart on the sibling axis.  Stated here for the
\* layouts in which every person was placed, every partnership drawn and
\* every child put one generation from its parents.
C8_SiblingsOneGapApart ==
  (LaidOut /\ EveryoneLaidOut /\ ChildrenOneGenerationBelow) =>
    \A j \in 1..Len(data.partnerships) :
      LET ch == data.partnerships[j].childIds
      IN \A k \in 1..(Len(ch) - 1) :
           /\ Gen(ch[k]) = Gen(ch[k + 1])
           /\ Abs(Sib(ch[k + 1]) - Sib(ch[k])) = spacing.siblings

\* C8 amended: two children consecutive in childIds that have no
\* partnerships of their own and are listed as a child only there share the
\* generation coordinate; the later one is exactly spacing.siblings after
\* the earlier one on the sibling axis when the result holds a
\* PartnershipConnection for their partnership, and both are at the same
\* place when it holds none.
C8_LeafSiblingsOneGapApart ==
  LaidOut =>
    \A j \in 1..Len(data.partnerships) :
      LET p == data.partnerships[j]
          ch == p.childIds
      IN \A k \in 1..(Len(ch) - 1) :
           (LeafChild(data, ch[k]) /\ LeafChild(data, ch[k + 1])) =>
             /\ Gen(ch[k]) = Gen(ch[k + 1])
             /\ Sib(ch[k + 1]) - Sib(ch[k])
                  = IF Processed(p) THEN spacing.siblings ELSE 0

\* a left-right layout of a processed partnership with two leaf children,
\* the second exactly one sibling gap after the first
C8_Witness ==
  /\ LaidOut
  /\ result.orientation = "left-right"
  /\ \E j \in 1..Len(data.partnerships) :
       LET p == data.partnerships[j]
       IN /\ Processed(p)
          /\ Len(p.childIds) = 2
          /\ LeafChild(data, p.childIds[1]) /\ LeafChild(data, p.childIds[2])
          /\ Sib(p.childIds[2]) - Sib(p.childIds[1]) = spacing.siblings
          /\ Gen(p.childIds[1]) = Gen(p.childIds[2])

\* ---------------------------------------------------------------------------
\* C9
\* ---------------------------------------------------------------------------

\* the partner in a one-parent partnership
LoneParent(p) == IF p.partnerIds[1] # Null THEN p.partnerIds[1] ELSE p.partnerIds[2]

\* twice the sibling-axis coordinate the only child should have
TwiceParentsCentre(p) ==
  IF p.partnerIds[1] # Null /\ p.partnerIds[2] # Null
    THEN Sib(p.partnerIds[1]) + Sib(p.partnerIds[2])
    ELSE 2 * Sib(LoneParent(p))

\* the two children are centred under the midpoint of the partnership's
\* PartnershipConnection
PairCentred(p) ==
  \E i \in ConnectionsOf(p) :
    Sib(p.childIds[1]) + Sib(p.childIds[2]) =
      2 * SiblingCoord(result.partnershipConnections[i].midpoint, result.orientation)

\* C9 as stated: the only child of a partnership is at the mean of the two
\* partners' sibling-axis coordinates, or at the lone parent's coordinate
\* when the other slot is null; two children without partnerships of their
\* own are centred under the partnership midpoint.  Stated here for the
\* layouts in which every person was placed, every partnership drawn and
\* every ChildConnection ends on its child's node.
C9_ChildrenCentredUnderParents ==
  (LaidOut /\ EveryoneLaidOut /\ ChildPointsOnNodes) =>
    \A j \in 1..Len(data.partnerships) :
      LET p == data.partnerships[j]
      IN /\ Len(p.childIds) = 1 => 2 * Sib(p.childIds[1]) = TwiceParentsCentre(p)
         /\ (Len(p.childIds) = 2 /\ \A c \in Range(p.childIds) : Single(data, c))
              => PairCentred(p)

\* C9 amended: in a processed partnership [id, id'] or [id, null] that is the
\* first processed partnership to name its partners, an only child that has
\* no partnerships of its own and is listed as a child only there is at the
\* mean of the two different partners' sibling-axis coordinates, or at the
\* lone parent's coordinate; in a processed partnership two such children
\* are centred under the midpoint of its PartnershipConnection.
C9_LeafChildrenCentredUnderParents ==
  LaidOut =>
    \A j \in 1..Len(data.partnerships) :
      LET p == data.partnerships[j]
      IN /\ ( /\ Len(p.childIds) = 1
              /\ LeafChild(data, p.childIds[1])
              /\ p.partnerIds[1] # Null
              /\ p.partnerIds[1] # p.partnerIds[2]
              /\ PlacesItsPartners(p) )
              => 2 * Sib(p.childIds[1]) = TwiceParentsCentre(p)
         /\ ( /\ Len(p.childIds) = 2
              /\ Processed(p)
              /\ \A c \in Range(p.childIds) : LeafChild(data, c) )
              => PairCentred(p)

\* a bottom-up layout with an only leaf child under the middle of its two
\* parents, who are one partner gap apart
C9_Witness ==
  /\ LaidOut
  /\ result.orientation = "bottom-up"
  /\ \E j \in 1..Len(data.partnerships) :
       LET p == data.partnerships[j]
       IN /\ Len(p.childIds) = 1 /\ TwoPartners(p) /\ PlacesItsPartners(p)
          /\ LeafChild(data, p.childIds[1])
          /\ Sib(p.partnerIds[2]) - Sib(p.partnerIds[1]) = spacing.partners
          /\ 2 * Sib(p.childIds[1]) = TwiceParentsCentre(p)

\* ---------------------------------------------------------------------------
\* C10
\* ---------------------------------------------------------------------------

\* the fixed maps as matrices <<a, b, c, d>>: (x, y) -> (a x + b y, c x + d y)
OrientationMatrix ==
  [o \in Orientations |->
     CASE o = "top-down" -> <<1, 0, 0, 1>>
       [] o = "bottom-up" -> <<1, 0, 0, 0 - 1>>
       [] o = "left-right" -> <<0, 1, 1, 0>>
       [] o = "right-left" -> <<0, 0 - 1, 1, 0>>]

Mapped(pt, o) ==
  LET m == OrientationMatrix[o]
  IN [x |-> m[1] * pt.x + m[2] * pt.y, y |-> m[3] * pt.x + m[4] * pt.y]

\* what calculateLayout returns for the same graph and spacing in top-down
TopDownResult ==
  transformLayout([nodes |-> Nodes, partnershipConnections |-> partnershipConnections,
                   childConnections |-> childConnections], "top-down")

\* the orientation asked for, top-down when none is given
Asked == IF orientationOpt = Undefined THEN "top-down" ELSE orientationOpt

\* C10: the result for orientation O is the top-down result with every node
\* coordinate, partnership midpoint, dropPoint and childPoint passed through
\* the fixed map of O; ids and the order of nodes and connections are those
\* of the top-down result, and result.orientation is O (top-down when none
\* is given).
C10_OrientationIsAFixedMap ==
  LaidOut =>
    LET t == TopDownResult
    IN /\ result.orientation = Asked
       /\ Len(result.nodes) = Len(t.nodes)
       /\ \A i \in 1..Len(t.nodes) :
            /\ result.nodes[i].id = t.nodes[i].id
            /\ [x |-> result.nodes[i].x, y |-> result.nodes[i].y]
                 = Mapped([x |-> t.nodes[i].x, y |-> t.nodes[i].y], Asked)
       /\ Len(result.partnershipConnections) = Len(t.partnershipConnections)
       /\ \A i \in 1..Len(t.partnershipConnections) :
            LET r == result.partnershipConnections[i]
                c == t.partnershipConnections[i]
            IN /\ r.partnershipId = c.partnershipId
               /\ r.partner1Id = c.partner1Id
               /\ r.partner2Id = c.partner2Id
               /\ r.midpoint = Mapped(c.midpoint, Asked)
       /\ Len(result.childConnections) = Len(t.childConnections)
       /\ \A i \in 1..Len(t.childConnections) :
            LET r == result.childConnections[i]
                c == t.childConnections[i]
            IN /\ r.partnershipId = c.partnershipId
               /\ r.childId = c.childId
               /\ r.dropPoint = Mapped(c.dropPoint, Asked)
               /\ r.childPoint = Mapped(c.childPoint, Asked)

\* a right-left layout with a child connection off both axes: its points
\* are those of the top-down layout turned a quarter
C10_Witness ==
  /\ LaidOut
  /\ orientationOpt = "right-left"
  /\ \E i \in 1..Len(result.childConnections) :
       /\ childConnections[i].childPoint.x > 0
       /\ childConnections[i].childPoint.y > 0
       /\ result.childConnections[i].childPoint.x = 0 - childConnections[i].childPoint.y
       /\ result.childConnections[i].childPoint.y = childConnections[i].childPoint.x
  /\ \E i \in 1..Len(result.nodes) : result.nodes[i].x < 0

\* ------------------------------------------------------------------ calls and their arguments

\* the call that has returned was made with the arguments of the call c
SameArguments(c) ==
  /\ c.data = data
  /\ c.spacingOpt = spacingOpt
  /\ c.orientationOpt = orientationOpt
  /\ c.rootPersonIdOpt = rootPersonIdOpt
  /\ c.peopleData = peopleData

\* C11: calculateLayout is deterministic and keeps nothing between calls: a
\* call with the graph, the spacing and the orientation of an earlier call
\* returns the LayoutResult the earlier call returned, whatever was laid out
\* in between.
C11_SameArgumentsSameResult ==
  (LaidOut /\ remembered # <<>> /\ SameArguments(remembered[1]))
    => result = remembered[1].result

\* a later call with the arguments of the kept call, on a couple: two nodes
\* apart and their connection
C11_Witness ==
  /\ LaidOut
  /\ remembered # <<>>
  /\ SameArguments(remembered[1])
  /\ Len(result.partnershipConnections) > 0
  /\ \E i, j \in 1..Len(result.nodes) : result.nodes[i].x # result.nodes[j].x
  /\ processedPeople # {}

\* C12: validateFamilyTreeData and calculateLayout leave the graph they are
\* given as it was, whether the validator returned or raised: the people, the
\* partnerships with their partnerIds and childIds in order, and rootPersonId.
C12_InputGraphUnchanged == data = given

\* the validator raised on a graph with a partnership, and the graph still
\* holds what it was rejected for
C12_Witness ==
  /\ pc = "threw"
  /\ thrown.threw
  /\ Len(data.partnerships) > 0
  /\ ~WellFormed(data)
  /\ data = given

\* ------------------------------------------------------------------ termination

\* C13: for every graph the validator accepted, calculateLayout returns a
\* LayoutResult: the roots loop, the recursion of layoutFamilyUnit and the
\* conversion come to an end and nothing raises on the way.
C13_LayoutReturns == (pc = "calculate") ~> LaidOut

\* a call of layoutFamilyUnit two levels below a root, on a graph that was
\* validated
C13_Witness ==
  /\ pc = "unit"
  /\ ~thrown.threw
  /\ Len(stack) >= 3

\* ------------------------------------------------------------------ connector end points

\* C14: in a layout that placed everyone, every ChildConnection's childPoint
\* is the position of the node of its child, in every orientation, also for
\* a child with partnerships of their own and for a child placed earlier.
C14_ChildPointIsChildNode == (LaidOut /\ EveryoneLaidOut) => ChildPointsOnNodes

\* every PartnershipConnection's midpoint is on the generation coordinate of
\* its partners' nodes, halfway between the two nodes or on the lone one
MidpointsBetweenPartners ==
  \A i \in 1..Len(result.partnershipConnections) :
    LET c == result.partnershipConnections[i]
        o == result.orientation
    IN /\ GenerationCoord(c.midpoint, o) = Gen(c.partner1Id)
       /\ IF c.partner2Id # Null
            THEN /\ GenerationCoord(c.midpoint, o) = Gen(c.partner2Id)
                 /\ 2 * SiblingCoord(c.midpoint, o) = Sib(c.partner1Id) + Sib(c.partner2Id)
            ELSE SiblingCoord(c.midpoint, o) = Sib(c.partner1Id)

\* C15: in a layout that placed everyone, the midpoint of every
\* PartnershipConnection is at its partners' generation coordinate and, along
\* the sibling axis, halfway between the two partners' nodes or on the lone
\* partner's node, also for the later partnerships of a person and for
\* partners placed earlier.
C15_MidpointBetweenPartners == (LaidOut /\ EveryoneLaidOut) => MidpointsBetweenPartners

\* ------------------------------------------------------------------ the roots loop

\* positions recorded by this step
NewlyPlaced == (DOMAIN nodePositions') \ (DOMAIN nodePositions)

\* one step of the roots loop or of the traversal under a root
RootsStep ==
  /\ \A id \in NewlyPlaced : \A q \in placedBefore :
       nodePositions[q].x < nodePositions'[id].x
  /\ (pc = "unit" /\ pc' = "roots") =>
       /\ currentX' = currentX + returned' + spacing.siblings
       /\ rootIdx' = rootIdx + 1
  /\ (pc = "roots" /\ pc' = "unit") =>
       /\ Top'.personId = rootPeople[rootIdx]
       /\ Top'.startX = currentX

\* C16: the roots are taken in Root Finder order, the cursor moves on by the
\* width the root consumed plus spacing.siblings, and everyone placed under a
\* root is strictly right of everyone placed under the roots before it.
C16_RootsSideBySide == [][RootsStep]_vars

\* ------------------------------------------------------------------ the tree store

\* C17: in a store created with minZoom <= 1 <= maxZoom the zoom level is
\* within [minZoom, maxZoom] after any sequence of setZoom, zoomIn, zoomOut
\* and reset with any numeric arguments.
C17_ZoomWithinBounds == minZoom <= storeState.zoom /\ storeState.zoom <= maxZoom

\* C18: reset() restores the initial state from every state the store's
\* actions reach: zoom 1, no pan, nobody selected or hovered, no expanded
\* ids, no root person, no visible nodes; the callbacks the component
\* registered stay as they were.
C18_ResetRestoresInitialState ==
  beforeReset # <<>> =>
    /\ storeState.zoom = InitialZoom
    /\ storeState.panX = 0
    /\ storeState.panY = 0
    /\ storeState.selectedPersonId = Null
    /\ storeState.hoveredPersonId = Null
    /\ storeState.expandedIds = {}
    /\ storeState.rootPersonId = Null
    /\ storeState.visibleNodeIds = <<>>
    /\ storeState._centerOnPersonCallback = beforeReset[1]._centerOnPersonCallback
    /\ storeState._fitToViewCallback = beforeReset[1]._fitToViewCallback

\* reset() was called on a store with registered callbacks in which every
\* field had left its initial value, the expanded ids through toggleBranch
C18_Witness ==
  /\ beforeReset # <<>>
  /\ beforeReset[1].zoom # InitialZoom
  /\ beforeReset[1].panX # 0
  /\ beforeReset[1].panY # 0
  /\ beforeReset[1].selectedPersonId # Null
  /\ beforeReset[1].hoveredPersonId # Null
  /\ beforeReset[1].expandedIds = {"b"}
  /\ beforeReset[1].rootPersonId # Null
  /\ beforeReset[1].visibleNodeIds # <<>>
  /\ beforeReset[1]._centerOnPersonCallback # Null
  /\ storeState._centerOnPersonCallback # Null
  /\ storeState.expandedIds = {}

\* ------------------------------------------------------------------ the roots

\* findRootPeople has run on the graph being laid out
RootsFound == pc \in {"roots", "unit", "done"}

\* the place of a person in the people list
PlaceOf(g, id) == CHOOSE i \in 1..Len(g.people) : g.people[i] = id

\* the persons some partnership lists as a child
ChildrenIn(g) == UNION {Range(g.partnerships[j].childIds) : j \in 1..Len(g.partnerships)}

\* some partnership has the two as its partners
PartnersIn(g, a, b) ==
  \E j \in 1..Len(g.partnerships) :
    {g.partnerships[j].partnerIds[1], g.partnerships[j].partnerIds[2]} = {a, b}

\* C19: findRootPeople returns, in people order, only persons no partnership
\* lists as a child; no two of them are partners of each other; and a
\* parentless person is left out only as a partner of a root that comes
\* earlier in the people list.
C19_RootsAreParentlessFirstPartners ==
  RootsFound =>
    /\ Range(rootPeople) \subseteq People(data) \ ChildrenIn(data)
    /\ \A i, j \in 1..Len(rootPeople) :
         i < j => /\ PlaceOf(data, rootPeople[i]) < PlaceOf(data, rootPeople[j])
                  /\ ~PartnersIn(data, rootPeople[i], rootPeople[j])
    /\ \A id \in (People(data) \ ChildrenIn(data)) \ Range(rootPeople) :
         \E i \in 1..Len(rootPeople) :
           /\ PartnersIn(data, id, rootPeople[i])
           /\ PlaceOf(data, rootPeople[i]) < PlaceOf(data, id)

\* two roots, the second a later person, and a parentless person left out
\* who is listed in the first slot of the partnership with their root
C19_Witness ==
  /\ RootsFound
  /\ Len(rootPeople) = 2
  /\ \E j \in 1..Len(data.partnerships) :
       /\ data.partnerships[j].partnerIds[2] = rootPeople[2]
       /\ data.partnerships[j].partnerIds[1] \in
            (People(data) \ ChildrenIn(data)) \ Range(rootPeople)
  /\ ChildrenIn(data) # {}

\* ------------------------------------------------------------------ first placement wins

\* a step of a layout pass
PassStep == pc \in {"roots", "unit"}

\* layoutFamilyUnit is entered for a person who has a position
ReachedAgain ==
  /\ pc = "unit"
  /\ Top.at = "entry"
  /\ Top.personId \in DOMAIN nodePositions

\* the roots loop is at a root who has a position
RootReachedAgain ==
  /\ pc = "roots"
  /\ rootIdx <= Len(rootPeople)
  /\ rootPeople[rootIdx] \in DOMAIN nodePositions

FirstPlacementStep ==
  /\ PassStep =>
       \A id \in DOMAIN nodePositions :
         id \in DOMAIN nodePositions' /\ nodePositions'[id] = nodePositions[id]
  /\ ReachedAgain =>
       /\ returned' = 0
       /\ UNCHANGED sessionVars
  /\ RootReachedAgain =>
       /\ UNCHANGED <<sessionVars, currentX>>
       /\ pc' = "roots"

\* C20: during a layout pass a recorded position is never overwritten or
\* removed; a call of layoutFamilyUnit for a person who has a position
\* changes nothing in the session and returns zero width, and a root who has
\* a position is passed over without moving the cursor.
C20_FirstPlacementWins == [][FirstPlacementStep]_vars

\* a child of a later partnership who was placed before: layoutFamilyUnit is
\* entered for them from a children loop while their position is on record
C20_Witness ==
  /\ ReachedAgain
  /\ Len(stack) >= 2
  /\ Cardinality(DOMAIN nodePositions) >= 3

\* ------------------------------------------------------------------ the width estimator

\* the partnership the loop of the innermost call is at
AtPartnership == getPartnershipsForPerson(Top.personId, data)[Top.pi]

\* the innermost call is about to handle a partnership that is not processed:
\* it marks it, estimates its children and places its partners
HandlesPartnership ==
  /\ pc = "unit"
  /\ Top.at = "loop"
  /\ Top.pi <= Len(getPartnershipsForPerson(Top.personId, data))
  /\ AtPartnership.id \notin processedPartnerships

\* what the step changes in the session is the mark of line 271, the
\* positions of the partners and the one connection: the estimates in between
\* left nothing
EstimatesLeaveNoTrace ==
  HandlesPartnership =>
    LET partners == Range(AtPartnership.partnerIds) \ {Null}
    IN /\ processedPartnerships' = processedPartnerships \cup {AtPartnership.id}
       /\ processedPeople \subseteq processedPeople'
       /\ processedPeople' \subseteq processedPeople \cup partners
       /\ DOMAIN nodePositions' = processedPeople'
       /\ \A id \in DOMAIN nodePositions : nodePositions'[id] = nodePositions[id]
       /\ Len(partnershipConnections') = Len(partnershipConnections) + 1
       /\ SubSeq(partnershipConnections', 1, Len(partnershipConnections))
            = partnershipConnections
       /\ childConnections' = childConnections

\* C21: calculateSubtreeWidth is read-only on the layout session: the
\* processed partnerships, the processed people, the positions and both
\* connection lists are after the estimates what they were before; the calls
\* add to their own copy of the processed-people set only.
C21_EstimatorReadsOnly == [][EstimatesLeaveNoTrace]_vars

\* the children of a partnership have been estimated, one of them wider than
\* nothing, so the estimate visited that child and its descendants, and none
\* of the children is processed
C21_Witness ==
  /\ pc = "unit"
  /\ Top.at = "children"
  /\ Top.i = 1
  /\ \E k \in 1..Len(Top.childWidths) : Top.childWidths[k] > 0
  /\ Range(AtPartnership.childIds) \cap processedPeople = {}

\* ------------------------------------------------------------------ several partnerships of a root

\* the partner a partnership gives the person
OtherPartner(partnership, id) ==
  IF partnership.partnerIds[1] = id THEN partnership.partnerIds[2]
                                    ELSE partnership.partnerIds[1]

\* the person has two or more partnerships, each with a different partner
SeveralPartners(id) ==
  LET partnerships == getPartnershipsForPerson(id, data)
  IN /\ Len(partnerships) >= 2
     /\ \A j, k \in 1..Len(partnerships) :
          j # k => OtherPartner(partnerships[j], id) # OtherPartner(partnerships[k], id)

\* the places in partnershipConnections of the connections of a partnership
PlacesOf(partnershipId) ==
  {n \in 1..Len(partnershipConnections) :
     partnershipConnections[n].partnershipId = partnershipId}

\* the partnerships of the person have one connection each, in input order,
\* each midpoint right of the one before by at least half the two partner
\* pairs and the sibling gap
UnitsSideBySide(id) ==
  LET partnerships == getPartnershipsForPerson(id, data)
      At(j) == CHOOSE n \in PlacesOf(partnerships[j].id) : TRUE
      MidpointAt(j) == partnershipConnections[At(j)].midpoint.x
  IN /\ \A j \in 1..Len(partnerships) : Cardinality(PlacesOf(partnerships[j].id)) = 1
     /\ \A j \in 1..(Len(partnerships) - 1) :
          /\ At(j) < At(j + 1)
          /\ MidpointAt(j) < MidpointAt(j + 1)
          /\ 2 * (MidpointAt(j + 1) - MidpointAt(j))
               >= PartnerWidth(partnerships[j].partnerIds[2], spacing)
                    + PartnerWidth(partnerships[j + 1].partnerIds[2], spacing)
                    + 2 * spacing.siblings

\* C22: a root person with two or more partnerships, each with a different
\* partner, gets one PartnershipConnection per partnership, in partnership
\* input order, the units side by side a sibling gap apart, so that the
\* midpoints strictly increase from one partnership to the next.
C22_PartnershipUnitsSideBySide ==
  LaidOut => \A r \in Range(rootPeople) : SeveralPartners(r) => UnitsSideBySide(r)

\* ------------------------------------------------------------------ hints and payloads

\* the call that has returned was made with the people, the partnerships, the
\* spacing and the orientation of the call c
SameButHints(c) ==
  /\ c.data.people = data.people
  /\ c.data.partnerships = data.partnerships
  /\ c.spacingOpt = spacingOpt
  /\ c.orientationOpt = orientationOpt

\* C23: the LayoutResult does not depend on the root hint or on the payloads:
\* two calls on valid graphs that differ in rootPersonId of the data, in
\* rootPersonId of the options or in the payloads of the people only, with
\* the same spacing and orientation, return the same LayoutResult.
C23_HintsAndPayloadsIgnored ==
  (LaidOut /\ remembered # <<>> /\ SameButHints(remembered[1]))
    => result = remembered[1].result

\* a later call on two family lines, with the second root as the hint in the
\* data and in the options and a payload on someone, where the kept call had
\* neither
C23_Witness ==
  /\ LaidOut
  /\ remembered # <<>>
  /\ SameButHints(remembered[1])
  /\ Len(rootPeople) = 2
  /\ data.rootPersonId = rootPeople[2]
  /\ rootPersonIdOpt = rootPeople[2]
  /\ \E id \in DOMAIN peopleData : peopleData[id] # Undefined
  /\ remembered[1].data.rootPersonId = Undefined
  /\ remembered[1].rootPersonIdOpt = Undefined
  /\ remembered[1].peopleData = <<>>

\* ------------------------------------------------------------------ drop points

\* the node of the person in a top-down result
NodeY(id) == NodeOf(id).y

\* the ChildConnection starts under the midpoint of the connection of its
\* partnership, half a generation below it, and that is below the nodes of
\* the parents and above the node of the child
DropPointBetweenGenerations(c) ==
  LET unions == {n \in 1..Len(result.partnershipConnections) :
                   result.partnershipConnections[n].partnershipId = c.partnershipId}
  IN /\ Cardinality(unions) = 1
     /\ \A n \in unions :
          LET u == result.partnershipConnections[n]
          IN /\ c.dropPoint.x = u.midpoint.x
             /\ c.dropPoint.y = u.midpoint.y + Half(spacing.generation)
             /\ \A parent \in {u.partner1Id, u.partner2Id} \ {Null} :
                  NodeY(parent) < c.dropPoint.y
             /\ c.dropPoint.y < NodeY(c.childId)

\* C24: in top-down coordinates every ChildConnection's dropPoint has the x
\* of the midpoint of the PartnershipConnection of its partnership and the y
\* of that midpoint plus half of spacing.generation, which is strictly
\* between the y of the parents' nodes and the y of the child's node.
C24_DropPointBetweenGenerations ==
  (LaidOut /\ result.orientation = "top-down") =>
    \A i \in 1..Len(result.childConnections) :
      DropPointBetweenGenerations(result.childConnections[i])

\* ------------------------------------------------------------------ connections and input

\* the ChildConnections of the result that join the partnership and the child
ChildConnectionsOf(p, childId) ==
  {i \in 1..Len(result.childConnections) :
     /\ result.childConnections[i].partnershipId = p.id
     /\ result.childConnections[i].childId = childId}

\* how many entries of the partnership's childIds name the child
ChildEntries(p, childId) ==
  Cardinality({k \in 1..Len(p.childIds) : p.childIds[k] = childId})

\* one PartnershipConnection for each partnership of the graph and no other,
\* one ChildConnection for each entry of each childIds and no other
ConnectionsMatchInput ==
  /\ Len(result.partnershipConnections) = Len(data.partnerships)
  /\ Len(result.childConnections)
       = SumSeq([j \in 1..Len(data.partnerships) |-> Len(data.partnerships[j].childIds)])
  /\ \A j \in 1..Len(data.partnerships) :
       LET p == data.partnerships[j]
       IN /\ Cardinality(ConnectionsOf(p)) = 1
          /\ \A childId \in Range(p.childIds) :
               Cardinality(ChildConnectionsOf(p, childId)) = ChildEntries(p, childId)

\* C25: the connections of the result are in one-to-one correspondence with
\* the input: exactly one PartnershipConnection for each partnership of the
\* graph, none missing and none twice, and exactly one ChildConnection for
\* each entry of each partnership's childIds.
C25_ConnectionsMatchInput == LaidOut => ConnectionsMatchInput

\* ------------------------------------------------------------------ everyone is placed

\* C26: at the end of the layout pass every person of the graph has a
\* recorded position and is in the processed-people set, so that no
\* LayoutNode takes the (0, 0) fallback, also a person reached only through
\* another partnership of a partner who was placed already.
C26_EveryonePlaced ==
  LaidOut => /\ DOMAIN nodePositions = Range(data.people)
             /\ processedPeople = Range(data.people)

\* ------------------------------------------------------------------ no two nodes in one place

PositiveSpacing ==
  spacing.generation > 0 /\ spacing.siblings > 0 /\ spacing.partners > 0

\* C27: with positive spacing values no two distinct people have the same
\* (x, y) in the LayoutResult.
C27_NoTwoNodesInOnePlace ==
  (LaidOut /\ PositiveSpacing) =>
    \A i, j \in 1..Len(result.nodes) :
      i # j => <<result.nodes[i].x, result.nodes[i].y>>
                 # <<result.nodes[j].x, result.nodes[j].y>>

\* ------------------------------------------------------------------ estimate and consumed width

\* a layoutFamilyUnit call for a child returns to the unit that called it
ChildCallReturns ==
  /\ pc = "unit"
  /\ Len(stack) >= 2
  /\ Len(stack') = Len(stack) - 1

\* the width the child's call returns is the estimate the calling unit took
\* for that child in its first pass
ReturnsTheEstimate ==
  ChildCallReturns =>
    LET caller == stack[Len(stack) - 1]
    IN returned' = caller.childWidths[caller.i]

\* C28: the estimator and the assigner agree: the width the recursive
\* layoutFamilyUnit call for a child returns, which the caller discards, is
\* the width calculateSubtreeWidth estimated for that child and by which the
\* caller reserves room and advances childX, also where a descendant or a
\* partner is shared between two subtrees.
C28_EstimateIsConsumedWidth == [][ReturnsTheEstimate]_vars

\* ------------------------------------------------------------------ termination of the layout

\* the parent relation of the graph has a cycle
Cyclic(g) ==
  LET err == validateFamilyTreeData(g)
  IN err.threw /\ ErrorKind(err) = "circular-reference"

\* no more layoutFamilyUnit calls are active than the graph has partnerships,
\* and the one that is about to return
DepthBounded == Len(stack) <= Len(data.partnerships) + 1

\* C29: calculateLayout returns on every finite graph whose references
\* resolve, validated or not, with or without an ancestry cycle, and the
\* depth of the layoutFamilyUnit recursion is bounded by the number of
\* partnerships: every descent follows the marking of a partnership that was
\* not processed.
C29_LayoutTerminates == []DepthBounded /\ ((pc = "calculate") ~> LaidOut)

\* the layout of a graph with an ancestry cycle has returned, after a call
\* for a person on the cycle who was placed already
C29_Witness ==
  /\ LaidOut
  /\ Cyclic(data)
  /\ Len(result.childConnections) >= 2
  /\ processedPeople = Range(data.people)

\* ------------------------------------------------------------------ termination of the validator

\* validateFamilyTreeData has returned or thrown
ValidatorEnded == pc \in {"threw", "calculate"}

\* the queue never holds more than the graph has child-parent pairs: the
\* parents of the person and the parents of each visited ancestor, once
QueueBounded == Len(queue) <= Cardinality(ParentPairs(data))

\* C30: validateFamilyTreeData returns or throws on every finite graph, also
\* where the parent relation has a cycle that does not pass through the
\* person being checked: the parents of an ancestor are enqueued at most
\* once for a person, so the queue empties or the person is found in it.
C30_ValidatorTerminates == []QueueBounded /\ ((pc = "validate") ~> ValidatorEnded)

\* the traversal for a person who is on no cycle takes from the queue an
\* ancestor it visited before, one who is their own ancestor
C30_Witness ==
  /\ pc = "ancestors"
  /\ queue # <<>>
  /\ Head(queue) \in visited
  /\ Head(queue) \in Ancestors(data, Head(queue))
  /\ data.people[personIdx] \notin Ancestors(data, data.people[personIdx])

\* the step-wise validator ends as validateFamilyTreeData does
ValidatorAgrees == ValidatorEnded => thrown = validateFamilyTreeData(data)

====
